---- MODULE Spec2Model ----
(***************************************************************************)
(* Alexandria transit agent: gazetteer and geocoder (geocoding_full.py),   *)
(* language detection, dialect normalisation, location extraction and the  *)
(* query orchestrator (transit_agent_final.py), and the normalisation of   *)
(* the Planner's itineraries (otp_client.py).                              *)
(*                                                                         *)
(* A text is the tuple of its Unicode code points ("ab" is <<97, 98>>),    *)
(* so that case folding, trimming, splitting, containment and replacement  *)
(* are computed character by character, as Python computes them.  The      *)
(* characters of the queries and of the names are ASCII and the Arabic     *)
(* block U+0600..U+06FF; the responses add the symbols of their templates. *)
(* A coordinate is an integer number of 1e-7 degrees.                      *)
(***************************************************************************)
EXTENDS Integers, Sequences, FiniteSets, TLC

VARIABLES
    stops,          \* AlexandriaGeocoder.stops: the list of TransitStop
    stop_dict,      \* AlexandriaGeocoder.stop_dict: lowercase alias -> stop
    fn,             \* the function under call
    pc,             \* the position in it: "call" before it runs, "done" after
    arg,            \* its argument
    ret,            \* its return value
    language,       \* process_query: the local variables of the call
    from_location,
    to_location,
    from_coords,
    to_coords,
    routes,
    calls,          \* the calls made so far to the geocoder and to the
                    \* collaborators, each with the collaborator's reply
    memory,         \* MemoryManager.memory: the store, a dict of four keys
    memory_file,    \* the content of the file user_memory.json
    now,            \* datetime.now(), in days since the store was created
    waiting         \* the calls of process_query suspended at an await, each
                    \* with its own position and local variables

\* The local variables of process_query and its calls
locals == <<language, from_location, to_location, from_coords, to_coords, routes, calls>>

\* The memory store, its file and the clock
store == <<memory, memory_file, now>>

vars == <<stops, stop_dict, fn, pc, arg, ret, locals, store, waiting>>

\* Python's None.  An optional text t is None or Some(t), so that the empty
\* text "" = << >> stays distinct from None.
None == <<"None">>
Some(x) == <<"Some", x>>

\* No call of process_query is under way, and none is suspended.
NoQuery ==
    /\ waiting = << >>
    /\ language = ""
    /\ from_location = None /\ to_location = None
    /\ from_coords = None /\ to_coords = None
    /\ routes = None
    /\ calls = << >>

\* MemoryManager._load_memory without a file: the default structure
DefaultMemory ==
    [recent_locations   |-> << >>,
     user_preferences   |-> [preferred_transit_modes |-> <<"TRANSIT", "BUS">>,
                             max_walking_distance    |-> 1000,
                             max_transfers           |-> 2,
                             language                |-> "en",
                             wheelchair_accessible   |-> FALSE],
     favorite_locations |-> << >>,
     search_history     |-> << >>]

\* The store of a MemoryManager constructed where there is no file
NewStore ==
    /\ memory = DefaultMemory
    /\ memory_file = None
    /\ now = 0

Min(S) == CHOOSE x \in S : \A y \in S : x <= y
Max(S) == CHOOSE x \in S : \A y \in S : x >= y
Range(f) == {f[i] : i \in DOMAIN f}

----------------------------------------------------------------------------
(* Python str methods, on code-point tuples *)

\* str.lower() of one character: A..Z fold to a..z, and no character of the
\* Arabic block has a case.
LowerChar(c) == IF c \in 65..90 THEN c + 32 ELSE c

\* str.lower()
lower(s) == IF s = << >> THEN << >> ELSE [i \in 1..Len(s) |-> LowerChar(s[i])]

\* str.isspace() of one character; the regular expression class \s is the same
\* set on these characters.
isspace(c) == c \in 9..13 \/ c \in 28..32

\* str.isalpha() of one character (Unicode categories L*).
isalpha(c) ==
    \/ c \in 65..90 \/ c \in 97..122
    \/ c \in 1568..1610 \/ c \in 1646..1647 \/ c \in 1649..1747 \/ c = 1749
    \/ c \in 1765..1766 \/ c \in 1774..1775 \/ c \in 1786..1788 \/ c = 1791

\* str.strip()
strip(s) ==
    LET keep == {i \in 1..Len(s) : ~isspace(s[i])}
    IN  IF keep = {} THEN << >> ELSE SubSeq(s, Min(keep), Max(keep))

\* sub in s
In(sub, s) ==
    \/ sub = << >>
    \/ \E i \in 1..(Len(s) - Len(sub) + 1) : SubSeq(s, i, i + Len(sub) - 1) = sub

\* str.split(): the maximal runs of non-whitespace, left to right
RECURSIVE SplitFrom(_, _)
SplitFrom(s, i) ==
    IF i > Len(s) THEN << >>
    ELSE IF isspace(s[i]) THEN SplitFrom(s, i + 1)
    ELSE LET ws == {j \in i..Len(s) : isspace(s[j])}
             e  == IF ws = {} THEN Len(s) ELSE Min(ws) - 1
         IN  <<SubSeq(s, i, e)>> \o SplitFrom(s, e + 1)

split(s) == SplitFrom(s, 1)

\* str.replace(old, new): the non-overlapping occurrences, left to right
RECURSIVE replace(_, _, _)
replace(s, old, new) ==
    IF old = << >>
    THEN new \o (IF s = << >> THEN << >> ELSE <<s[1]>> \o replace(Tail(s), old, new))
    ELSE IF Len(s) < Len(old) THEN s
    ELSE IF SubSeq(s, 1, Len(old)) = old
         THEN new \o replace(SubSeq(s, Len(old) + 1, Len(s)), old, new)
         ELSE <<s[1]>> \o replace(Tail(s), old, new)

----------------------------------------------------------------------------
(* The tables of the source *)

\* src/geocoding_full.py:28-252  stops_data: (stop_id, stop_name, lat, lon);
\* a name is its tuple of code points, a coordinate is in units of 1e-7 degree.
stops_data ==
    << <<1, <<66,111,114,103,32,65,108,45,65,114,97,98,32,79,108,100,32,84,101,114,109,105,110,97,108>>, 308839870, 294978640>>,  \* Borg Al-Arab Old Terminal
       <<2, <<66,97,104,101,101,103,32,83,113,117,97,114,101>>, 309014500, 295443870>>,  \* Baheeg Square
       <<3, <<65,108,45,77,97,114,119,97,32,77,111,115,113,117,101>>, 309039410, 295475212>>,  \* Al-Marwa Mosque
       <<4, <<66,97,104,101,101,103,32,84,114,97,102,102,105,99,32,68,101,112,97,114,116,109,101,110,116>>, 309423260, 295933765>>,  \* Baheeg Traffic Department
       <<5, <<75,105,110,103,32,72,101,105,103,104,116,115>>, 309488850, 296061130>>,  \* King Heights
       <<6, <<79,109,32,90,101,103,104,121,111>>, 310713418, 297615553>>,  \* Om Zeghyo
       <<7, <<65,108,45,77,97,100,102,97,110>>, 310751035, 297532603>>,  \* Al-Madfan
       <<8, <<65,108,45,77,97,115,97,107,101,110>>, 310764610, 297476920>>,  \* Al-Masaken
       <<9, <<65,108,45,69,109,97,109,32,65,108,45,83,104,97,102,97,97,121,32,65,122,104,97,114,105,32,73,110,115,116,105,116,117,116,101>>, 310772420, 297444650>>,  \* Al-Emam Al-Shafaay Azhari Institute
       <<10, <<65,119,97,108,32,65,108,45,84,97,119,107,101,101,108>>, 310733070, 297595500>>,  \* Awal Al-Tawkeel
       <<11, <<90,111,114,111,32,67,97,102,101>>, 310777350, 297403120>>,  \* Zoro Cafe
       <<12, <<75,105,108,111,32,50,49>>, 310778600, 297374980>>,  \* Kilo 21
       <<13, <<83,116,114,101,101,116,32,54,32,65,115,97,102,114,97>>, 312654590, 300032100>>,  \* Street 6 Asafra
       <<17, <<65,115,97,102,114,97,32,83,116,97,116,105,111,110>>, 312691670, 300066300>>,  \* Asafra Station
       <<21, <<65,115,97,102,114,97,32,83,116,97,116,105,111,110>>, 312678440, 300099920>>,  \* Asafra Station
       <<32, <<83,116,114,101,101,116,32,52,53,32,45,32,77,105,97,109,105,32,66,114,105,100,103,101>>, 312675160, 300000480>>,  \* Street 45 - Miami Bridge
       <<48, <<65,98,117,32,81,105,114,32,83,116,97,116,105,111,110>>, 313203570, 300629690>>,  \* Abu Qir Station
       <<50, <<65,98,117,32,81,105,114,32,67,108,117,98>>, 313189150, 300622630>>,  \* Abu Qir Club
       <<52, <<65,98,117,32,81,105,114,32,84,114,97,105,110,32,83,116,97,116,105,111,110>>, 313178010, 300616480>>,  \* Abu Qir Train Station
       <<54, <<65,65,83,84,32,73,110,116,101,114,115,101,99,116,105,111,110>>, 313088600, 300588560>>,  \* AAST Intersection
       <<56, <<65,98,117,32,81,105,114,32,69,110,103,105,110,101,101,114,105,110,103,32,67,111,109,112,97,110,121>>, 313159750, 300608670>>,  \* Abu Qir Engineering Company
       <<58, <<65,100,109,105,110,105,115,116,114,97,116,105,111,110,32,83,116,97,116,105,111,110>>, 313043870, 300576500>>,  \* Administration Station
       <<60, <<83,116,114,101,101,116,32,49,54,32,40,77,111,110,116,97,122,97,104,41>>, 313020660, 300626910>>,  \* Street 16 (Montazah)
       <<61, <<69,108,32,83,97,100,97,116,32,77,111,115,113,117,101,32,65,98,117,32,81,105,114>>, 313006190, 300567280>>,  \* El Sadat Mosque Abu Qir
       <<63, <<65,108,32,83,111,117,113,32,69,110,116,114,97,110,99,101,32,65,98,117,32,81,105,114>>, 312961310, 300549430>>,  \* Al Souq Entrance Abu Qir
       <<65, <<65,108,32,77,97,97,109,111,117,114,97>>, 312918550, 300520650>>,  \* Al Maamoura
       <<67, <<65,108,32,73,115,108,97,104>>, 312846200, 300398180>>,  \* Al Islah
       <<69, <<77,97,97,109,111,117,114,97,32,67,104,105,108,100,114,101,110,32,80,97,114,107>>, 312840280, 300350030>>,  \* Maamoura Children Park
       <<71, <<77,97,97,109,111,117,114,97,32,71,97,116,101,115>>, 312835030, 300274160>>,  \* Maamoura Gates
       <<73, <<83,116,114,101,101,116,32,50,53,32,69,110,116,114,97,110,99,101>>, 312619300, 300710910>>,  \* Street 25 Entrance
       <<75, <<65,108,32,77,111,110,116,97,122,97,104,32,84,114,97,105,110,32,83,116,97,116,105,111,110>>, 312825230, 300207850>>,  \* Al Montazah Train Station
       <<77, <<69,108,32,77,97,110,100,97,114,97,32,66,114,105,100,103,101>>, 312803950, 300162200>>,  \* El Mandara Bridge
       <<79, <<69,108,32,77,97,110,100,97,114,97>>, 312808750, 300151260>>,  \* El Mandara
       <<81, <<69,108,32,77,97,110,100,97,114,97,32,83,111,117,116,104>>, 312760850, 300175970>>,  \* El Mandara South
       <<83, <<83,99,104,111,111,108,32,111,102,32,73,115,108,97,109,105,99,32,83,116,117,100,105,101,115>>, 312711160, 300230420>>,  \* School of Islamic Studies
       <<85, <<65,108,32,77,105,108,97,104,97>>, 312644760, 300278270>>,  \* Al Milaha
       <<87, <<65,108,32,66,101,114,111,108,111,115,32,67,97,110,97,108>>, 312733710, 300585510>>,  \* Al Berolos Canal
       <<88, <<83,116,114,101,101,116,32,52,53,32,65,115,97,102,114,97>>, 312612590, 300100960>>,  \* Street 45 Asafra
       <<90, <<83,116,114,101,101,116,32,52,53,32,65,115,97,102,114,97,32,67,104,117,114,99,104>>, 312600510, 300116480>>,  \* Street 45 Asafra Church
       <<92, <<79,113,98,97,32,73,98,110,32,78,97,102,101,97,32,72,111,115,112,105,116,97,108>>, 312618620, 300092020>>,  \* Oqba Ibn Nafea Hospital
       <<94, <<83,116,114,101,101,116,32,49,56,32,65,115,97,102,114,97>>, 312626480, 300078610>>,  \* Street 18 Asafra
       <<96, <<65,98,117,32,79,109,97,114,32,80,97,115,116,114,121,32,65,115,97,102,114,97>>, 312640530, 300054830>>,  \* Abu Omar Pastry Asafra
       <<98, <<65,115,97,102,114,97,32,83,116,97,116,105,111,110>>, 312703270, 300054210>>,  \* Asafra Station
       <<100, <<65,115,97,102,114,97,32,84,114,97,105,110,32,83,116,97,116,105,111,110>>, 312731570, 300081480>>,  \* Asafra Train Station
       <<101, <<69,108,32,77,97,110,100,97,114,97,32,83,113,117,97,114,101>>, 312802020, 300122240>>,  \* El Mandara Square
       <<102, <<83,104,101,114,97,116,111,110,32,77,111,110,116,97,122,97,104>>, 312816700, 300106970>>,  \* Sheraton Montazah
       <<104, <<87,97,116,101,114,32,67,111,109,112,97,110,121,32,69,108,32,77,97,110,100,97,114,97>>, 312797220, 300093450>>,  \* Water Company El Mandara
       <<106, <<77,97,107,114,97,109,32,73,99,101,32,67,114,101,97,109,32,69,108,32,77,97,110,100,97,114,97>>, 312779900, 300071330>>,  \* Makram Ice Cream El Mandara
       <<108, <<69,108,32,78,97,115,114,101,121,97,32,69,108,32,81,97,100,101,109,97>>, 309983900, 297877490>>,  \* El Nasreya El Qadema
       <<110, <<69,108,32,84,97,121,101,98,32,69,108,32,78,97,115,114,101,121,97>>, 310016470, 297854120>>,  \* El Tayeb El Nasreya
       <<112, <<71,114,101,101,110,32,71,97,116,101,32,69,108,32,78,97,115,114,101,121,97>>, 310064830, 297923550>>,  \* Green Gate El Nasreya
       <<114, <<65,109,114,101,121,97,32,72,111,115,112,105,116,97,108>>, 310119240, 297982210>>,  \* Amreya Hospital
       <<116, <<65,109,114,101,121,97,32,83,116,97,116,105,111,110>>, 310096070, 298054250>>,  \* Amreya Station
       <<119, <<69,108,32,79,108,97,32,67,111,109,112,97,110,121,32,65,109,114,101,121,97>>, 310055770, 298040390>>,  \* El Ola Company Amreya
       <<120, <<65,109,114,101,121,97,32,66,114,105,100,103,101>>, 310204980, 297941590>>,  \* Amreya Bridge
       <<122, <<73,122,98,97,116,32,72,97,119,100,32,49,48>>, 312436730, 300482650>>,  \* Izbat Hawd 10
       <<123, <<83,104,97,104,100,32,69,108,32,77,97,108,101,107,97>>, 312595860, 300189430>>,  \* Shahd El Maleka
       <<125, <<75,105,110,103,32,72,111,117,115,101,32,67,97,102,101>>, 312616590, 300225820>>,  \* King House Cafe
       <<127, <<65,119,101,108,32,52,53>>, 312697950, 309981390>>,  \* Awel 45
       <<129, <<65,122,122,97,32,65,115,97,102,114,97>>, 312746390, 300017050>>,  \* Azza Asafra
       <<131, <<71,97,100,32,65,115,97,102,114,97>>, 312719080, 299991230>>,  \* Gad Asafra
       <<133, <<83,107,97,110,100,97,114,32,73,98,114,97,104,105,109,32,45,32,67,111,117,114,110,105,99,104,101>>, 312702670, 299934770>>,  \* Skandar Ibrahim - Courniche
       <<135, <<73,122,98,101,116,32,72,97,119,100,32,49,50>>, 312594420, 300543190>>,  \* Izbet Hawd 12
       <<136, <<77,111,115,116,97,102,97,32,75,97,109,101,108,32,45,32,52,53,32,83,116,114,101,101,116>>, 312583510, 300159790>>,  \* Mostafa Kamel - 45 Street
       <<138, <<65,108,32,65,109,114,97,119,121,32,77,111,115,113,117,101>>, 312563010, 300135290>>,  \* Al Amrawy Mosque
       <<140, <<77,111,115,116,97,102,97,32,75,97,109,101,108,32,45,32,65,108,32,66,97,104,114,101,121,97,32,83,116>>, 312534180, 300102250>>,  \* Mostafa Kamel - Al Bahreya St
       <<142, <<77,105,115,114,32,71,97,115,32,83,116,97,116,105,111,110,32,45,32,77,111,115,116,97,102,97,32,75,97,109,101,108>>, 312483870, 300032040>>,  \* Misr Gas Station - Mostafa Kamel
       <<144, <<65,108,101,120,97,110,100,114,105,97,32,65,103,114,105,99,117,108,116,117,114,97,108,32,83,99,104,111,111,108>>, 312508900, 300071940>>,  \* Alexandria Agricultural School
       <<146, <<75,104,111,114,115,104,105,100>>, 311980290, 300360890>>,  \* Khorshid
       <<148, <<75,104,111,114,115,104,105,100,32,67,101,110,116,114,97,108>>, 311968380, 300391710>>,  \* Khorshid Central
       <<150, <<65,115,104,101,114,32,77,101,110,32,82,97,109,97,100,97,110,32,83,116>>, 312617170, 299985490>>,  \* Asher Men Ramadan St
       <<151, <<70,97,105,115,97,108,32,80,111,108,105,99,101,32,83,116,97,116,105,111,110,32,65,115,97,102,114,97,104>>, 312630190, 299995280>>,  \* Faisal Police Station Asafrah
       <<152, <<71,101,104,97,110,32,83,113,117,97,114,101>>, 312619190, 299930070>>,  \* Gehan Square
       <<154, <<65,119,101,108,32,71,97,109,97,108,32,65,98,100,101,108,110,97,115,101,114,32,83,116>>, 312696920, 300016630>>,  \* Awel Gamal Abdelnaser St
       <<155, <<66,97,104,97,114,121,32,40,82,97,115,32,65,108,32,84,105,110,41>>, 312020410, 298760820>>,  \* Bahary (Ras Al Tin)
       <<157, <<78,97,118,121,32,70,111,114,99,101,115,32,45,32,66,97,104,97,114,121>>, 312036770, 298747000>>,  \* Navy Forces - Bahary
       <<158, <<65,108,32,83,104,101,105,107,104,32,87,97,102,105,113,32,45,32,66,97,104,97,114,121>>, 312041220, 298757410>>,  \* Al Sheikh Wafiq - Bahary
       <<160, <<70,97,116,104,97,108,108,97,104,32,45,32,66,97,104,97,114,121>>, 312049250, 298774540>>,  \* Fathallah - Bahary
       <<162, <<65,108,101,120,97,110,100,114,105,97,32,78,97,118,121,32,83,99,111,117,116,115>>, 312060910, 298785180>>,  \* Alexandria Navy Scouts
       <<164, <<81,97,115,114,32,83,97,107,97,102,101,116,32,69,108,32,65,110,102,111,115,104,121>>, 312098470, 298792400>>,  \* Qasr Sakafet El Anfoshy
       <<165, <<65,110,102,111,117,115,104,121,32,80,111,108,105,99,101,32,83,116,97,116,105,111,110>>, 312099680, 298816950>>,  \* Anfoushy Police Station
       <<167, <<67,97,114,114,101,102,111,117,114,32,45,32,68,101,115,101,114,116,32,82,111,97,100>>, 311685100, 299347190>>,  \* Carrefour - Desert Road
       <<169, <<69,108,105,116,101,32,72,111,115,112,105,116,97,108>>, 311727320, 299433550>>,  \* Elite Hospital
       <<171, <<69,108,32,66,97,109,98,105>>, 311754880, 299482600>>,  \* El Bambi
       <<173, <<73,66,67,65,32,73,110,116,101,114,110,97,116,105,111,110,97,108,32,83,99,104,111,111,108>>, 311789130, 299558830>>,  \* IBCA International School
       <<175, <<65,119,97,121,101,100,32,80,111,115,116,32,79,102,102,105,99,101>>, 312114890, 300082730>>,  \* Awayed Post Office
       <<178, <<65,108,32,77,97,114,97,103,104,105>>, 312088090, 300208250>>,  \* Al Maraghi
       <<180, <<65,108,32,82,97,104,109,97,32,83,116,32,45,32,75,104,111,114,115,104,105,100>>, 312062580, 300299780>>,  \* Al Rahma St - Khorshid
       <<182, <<70,97,114,111,117,113,32,67,97,102,101,32,45,32,67,111,117,114,110,105,99,104,101>>, 312038670, 298855350>>,  \* Farouq Cafe - Courniche
       <<184, <<70,105,115,104,32,77,97,114,107,101,116,32,45,32,67,111,117,114,110,105,99,104,101>>, 312020450, 298878460>>,  \* Fish Market - Courniche
       <<186, <<67,111,117,114,116,32,67,111,109,112,108,101,120,32,45,32,67,111,117,114,110,105,99,104,101>>, 312011100, 298898440>>,  \* Court Complex - Courniche
       <<188, <<69,108,32,77,97,110,115,104,101,121,97,32,83,116,97,116,105,111,110>>, 311997400, 298951850>>,  \* El Mansheya Station
       <<190, <<82,97,109,108,32,83,116,97,116,105,111,110>>, 312003310, 298990980>>,  \* Raml Station
       <<192, <<82,97,109,108,32,83,116,97,116,105,111,110,32,45,32,67,111,117,114,110,105,99,104,101>>, 312011570, 298987890>>,  \* Raml Station - Courniche
       <<194, <<70,114,101,110,99,104,32,67,111,110,115,117,108,97,116,101>>, 312005030, 298951980>>,  \* French Consulate
       <<196, <<65,108,32,75,104,97,108,101,100,101,101,110,32,45,32,67,111,117,114,110,105,99,104,101>>, 312031640, 299020620>>,  \* Al Khaledeen - Courniche
       <<198, <<77,105,115,114,32,71,97,115,32,83,116,97,116,105,111,110,32,45,32,67,111,117,114,110,105,99,104,101>>, 312066350, 299056540>>,  \* Misr Gas Station - Courniche
       <<200, <<68,101,110,116,97,108,32,83,99,104,111,111,108>>, 312038540, 299067540>>,  \* Dental School
       <<201, <<65,108,32,75,104,97,108,101,100,101,101,110>>, 312028970, 299029760>>,  \* Al Khaledeen
       <<202, <<69,108,32,77,97,110,115,104,101,121,97,32,83,116,97,116,105,111,110>>, 311993530, 298957000>>,  \* El Mansheya Station
       <<203, <<77,105,97,109,105,32,45,32,67,111,117,114,110,105,99,104,101>>, 312700440, 299915220>>,  \* Miami - Courniche
       <<205, <<66,101,114,32,77,97,115,111,117,100>>, 312693140, 299871130>>,  \* Ber Masoud
       <<207, <<65,98,117,32,68,104,97,98,105,32,66,97,110,107,32,45,32,83,105,100,105,32,66,105,115,104,114>>, 312655910, 299871590>>,  \* Abu Dhabi Bank - Sidi Bishr
       <<209, <<83,105,100,105,32,66,105,115,104,114,32,66,101,97,99,104>>, 312623070, 299843770>>,  \* Sidi Bishr Beach
       <<211, <<77,111,104,97,109,101,100,32,78,97,103,117,105,98,32,83,113,117,97,114,101>>, 312593110, 299808980>>,  \* Mohamed Naguib Square
       <<214, <<65,108,32,82,97,104,109,97,110,32,77,111,115,113,117,101,32,45,32,67,111,117,114,110,105,99,104,101>>, 312572470, 299787740>>,  \* Al Rahman Mosque - Courniche
       <<216, <<83,105,100,105,32,66,105,115,104,114,32,84,114,97,109,32,83,116,97,116,105,111,110>>, 312529960, 299768430>>,  \* Sidi Bishr Tram Station
       <<218, <<65,108,32,77,97,104,114,111,117,115,97,32,84,117,110,110,101,108>>, 312548160, 299756390>>,  \* Al Mahrousa Tunnel
       <<220, <<83,97,110,32,83,116,101,102,97,110,111>>, 312460680, 299655700>>,  \* San Stefano
       <<222, <<76,117,114,97,110,32,83,116,97,116,105,111,110>>, 312493980, 299716240>>,  \* Luran Station
       <<223, <<81,117,116,97,32,40,83,111,116,101,114,41>>, 312081060, 299067470>>,  \* Quta (Soter)
       <<225, <<65,108,101,120,97,110,100,114,105,97,32,85,110,105,118,101,114,115,105,116,121,32,45,32,67,111,117,114,110,105,99,104,101>>, 312108040, 299127270>>,  \* Alexandria University - Courniche
       <<227, <<83,104,97,116,98,121,32,72,111,115,112,105,116,97,108,32,77,111,115,113,117,101>>, 312088280, 299127330>>,  \* Shatby Hospital Mosque
       <<229, <<83,104,97,116,98,121,32,80,101,100,101,115,116,114,105,97,110,32,84,117,110,110,101,108>>, 312119450, 299161180>>,  \* Shatby Pedestrian Tunnel
       <<231, <<71,108,101,101,109,32,80,101,100,101,115,116,114,105,97,110,32,84,117,110,110,101,108>>, 312409820, 299595330>>,  \* Gleem Pedestrian Tunnel
       <<233, <<77,111,104,97,110,100,101,115,101,101,110,32,80,101,100,101,115,116,114,105,97,110,32,84,117,110,110,101,108>>, 312391740, 299541710>>,  \* Mohandeseen Pedestrian Tunnel
       <<235, <<83,117,110,32,82,105,115,101,32,72,111,116,101,108>>, 312329750, 299462020>>,  \* Sun Rise Hotel
       <<237, <<83,116,97,110,108,101,121,32,66,114,105,100,103,101>>, 312362060, 299501220>>,  \* Stanley Bridge
       <<239, <<84,104,101,32,87,97,108,107,32,45,32,83,105,100,105,32,71,97,98,101,114>>, 312271990, 299382780>>,  \* The Walk - Sidi Gaber
       <<241, <<67,97,109,112,32,83,104,101,122,97,114>>, 312153740, 299217190>>,  \* Camp Shezar
       <<243, <<83,112,111,114,116,105,110,103,32,45,32,67,111,117,114,110,105,99,104,101>>, 312210210, 299304920>>,  \* Sporting - Courniche
       <<245, <<67,108,101,111,112,97,116,114,97,32,80,101,100,101,115,116,114,105,97,110,32,66,114,105,100,103,101>>, 312245750, 299350150>>,  \* Cleopatra Pedestrian Bridge
       <<247, <<72,97,110,117,118,105,108,32,71,97,109,101,97,121,97>>, 311119730, 297588090>>,  \* Hanuvil Gameaya
       <<248, <<65,108,32,71,111,109,114,111,107,32,80,111,108,105,99,101,32,83,116,97,116,105,111,110>>, 311985550, 298824960>>,  \* Al Gomrok Police Station
       <<249, <<72,97,110,121,32,86,105,108,108,97,103,101>>, 310315220, 297856090>>,  \* Hany Village
       <<251, <<70,114,101,101,32,90,111,110,101>>, 310365240, 297821950>>,  \* Free Zone
       <<253, <<66,97,98,32,87,97,104,101,100>>, 312009510, 298813020>>,  \* Bab Wahed
       <<254, <<69,108,32,77,97,108,97,104,97,32,45,32,65,115,97,102,114,97>>, 312680370, 300189080>>,  \* El Malaha - Asafra
       <<255, <<84,97,109,119,101,101,110,32,77,111,110,116,97,122,97,104>>, 312581670, 299877670>>,  \* Tamween Montazah
       <<257, <<83,105,100,105,32,66,105,115,104,114,32,83,116,97,116,105,111,110>>, 312568650, 299914030>>,  \* Sidi Bishr Station
       <<261, <<86,105,99,116,111,114,105,97,32,83,116,97,116,105,111,110>>, 312488450, 299806240>>,  \* Victoria Station
       <<263, <<86,105,99,116,111,114,105,97,32,67,111,108,108,101,103,101>>, 312476780, 299783040>>,  \* Victoria College
       <<265, <<69,45,80,111,115,116,32,86,105,99,116,111,114,97>>, 312512070, 299848170>>,  \* E-Post Victora
       <<267, <<65,108,32,83,101,121,111,117,102>>, 312411680, 299973690>>,  \* Al Seyouf
       <<268, <<65,98,111,117,32,75,97,109,97,108,32,45,32,65,108,32,83,101,121,111,117,102>>, 312409920, 299983360>>,  \* Abou Kamal - Al Seyouf
       <<270, <<70,97,108,97,107,105,32,45,32,65,108,32,83,101,121,111,117,102>>, 312412220, 299988350>>,  \* Falaki - Al Seyouf
       <<271, <<77,97,100,97,114,101,115,32,83,116,32,45,32,65,108,32,83,101,121,111,117,102>>, 312379670, 299990140>>,  \* Madares St - Al Seyouf
       <<273, <<65,108,32,83,101,121,111,117,102,32,83,113,117,97,114,101>>, 312405800, 299925090>>,  \* Al Seyouf Square
       <<274, <<69,108,32,83,97,97,104,32,83,113,117,97,114,101>>, 312443420, 299856060>>,  \* El Saah Square
       <<279, <<66,45,84,101,99,104,32,77,111,115,116,97,102,97,32,75,97,109,101,108>>, 312464370, 299924940>>,  \* B-Tech Mostafa Kamel
       <<281, <<77,97,108,97,107,32,72,101,102,110,121,32,83,116>>, 312537220, 299888640>>,  \* Malak Hefny St
       <<283, <<83,116,114,101,101,116,32,49,53>>, 312510340, 299917990>>,  \* Street 15
       <<284, <<74,101,119,101,108,101,114,121,32,77,117,115,101,117,109>>, 312396500, 299642620>>,  \* Jewelery Museum
       <<286, <<66,97,107,117,115>>, 312358180, 299665130>>,  \* Bakus
       <<291, <<65,108,32,87,101,122,97,114,97,32,84,114,97,109>>, 312318950, 299564180>>,  \* Al Wezara Tram
       <<293, <<65,98,117,32,83,117,108,105,109,97,110>>, 312321210, 299828930>>,  \* Abu Suliman
       <<295, <<72,101,97,108,116,104,32,73,110,115,117,114,97,110,99,101,32,65,108,32,83,101,121,111,117,102>>, 312300620, 299932470>>,  \* Health Insurance Al Seyouf
       <<296, <<80,101,100,101,115,116,114,105,97,110,32,66,114,105,100,103,101,32,45,32,82,105,110,103,32,82,111,97,100>>, 312133570, 299936060>>,  \* Pedestrian Bridge - Ring Road
       <<298, <<65,119,97,121,101,100,32,66,114,105,100,103,101,32,83,116,97,114,116>>, 312156690, 299940440>>,  \* Awayed Bridge Start
       <<300, <<69,108,32,65,119,97,121,101,100>>, 312174990, 299938610>>,  \* El Awayed
       <<304, <<69,108,32,65,119,97,121,101,100,32,66,114,105,100,103,101,32,69,110,100>>, 312221970, 299935870>>,  \* El Awayed Bridge End
       <<308, <<69,110,116,114,121,32,116,111,32,65,98,117,32,83,117,108,105,109,97,110>>, 312245780, 299795630>>,  \* Entry to Abu Suliman
       <<310, <<78,97,109,111,115,32,66,114,105,100,103,101>>, 312237230, 299752300>>,  \* Namos Bridge
       <<313, <<71,97,98,114,105,101,108,32,83,116,97,116,105,111,110,32,66,97,122,97,114>>, 312385250, 299762900>>,  \* Gabriel Station Bazar
       <<314, <<66,97,105,116,32,65,108,32,71,111,109,108,97,32,77,97,114,107,101,116>>, 312387470, 299795830>>,  \* Bait Al Gomla Market
       <<315, <<87,101,107,97,108,97,32,73,115,104,116,101,114,97,107,101,121,97>>, 312384740, 299824240>>,  \* Wekala Ishterakeya
       <<317, <<65,108,32,72,97,103,97,114,32,80,101,100,101,115,116,114,105,97,110,32,66,114,105,100,103,101>>, 312203010, 299650520>>,  \* Al Hagar Pedestrian Bridge
       <<320, <<86,105,99,116,111,114,32,69,109,109,97,110,117,101,108,32,83,113,117,97,114,101>>, 312141770, 299448530>>,  \* Victor Emmanuel Square
       <<323, <<83,105,100,105,32,71,97,98,101,114,32,83,116,97,116,105,111,110>>, 312181170, 299419970>>,  \* Sidi Gaber Station
       <<328, <<65,98,105,115,32,66,114,105,100,103,101>>, 312036700, 299939910>>,  \* Abis Bridge
       <<330, <<65,98,105,115,32,84,114,97,102,102,105,99,32,76,105,103,104,116>>, 311748970, 299790080>>,  \* Abis Traffic Light
       <<332, <<65,110,97,110,121,32,70,97,99,116,111,114,121>>, 311805400, 299914360>>,  \* Anany Factory
       <<334, <<69,122,98,101,116,32,83,97,97,100>>, 312079760, 299410220>>,  \* Ezbet Saad
       <<337, <<65,100,109,111,110,32,70,114,101,109,111,110,32,83,116>>, 312083870, 299474960>>,  \* Admon Fremon St
       <<339, <<71,121,97,100,32,67,108,117,98>>, 312134870, 299494690>>,  \* Gyad Club
       <<341, <<77,97,110,115,111,117,114,32,79,112,101,108,32,67,97,114,32,83,104,111,119,114,111,111,109>>, 312252130, 299475500>>,  \* Mansour Opel Car Showroom
       <<343, <<71,114,101,101,110,32,80,108,97,122,97>>, 312091240, 299629980>>,  \* Green Plaza
       <<345, <<73,116,105,104,97,100,32,67,108,117,98>>, 312037270, 299759890>>,  \* Itihad Club
       <<347, <<65,108,105,32,73,98,110,32,84,97,108,101,98,32,77,111,115,113,117,101,32,45,32,83,109,111,117,104,97>>, 312125500, 299404820>>,  \* Ali Ibn Taleb Mosque - Smouha
       <<349, <<73,98,114,97,104,105,109,101,121,97,32,70,108,121,45,111,118,101,114>>, 312086930, 299342060>>,  \* Ibrahimeya Fly-over
       <<351, <<72,97,100,114,97>>, 312047940, 299361280>>,  \* Hadra
       <<352, <<65,110,116,111,110,105,97,100,105,115>>, 312032260, 299406600>>,  \* Antoniadis
       <<355, <<69,108,32,77,97,110,115,104,101,121,97>>, 311976310, 298927400>>,  \* El Mansheya
       <<356, <<71,97,109,97,114,101,107,32,67,108,117,98>>, 311930350, 298851170>>,  \* Gamarek Club
       <<357, <<68,97,114,119,105,115,104,32,70,97,99,116,111,114,121>>, 311888770, 298863310>>,  \* Darwish Factory
       <<358, <<84,114,97,105,110,32,83,116,97,116,105,111,110,32,40,65,108,32,83,104,111,104,97,100,97,97,41>>, 311935630, 299025800>>,  \* Train Station (Al Shohadaa)
       <<363, <<75,97,102,114,32,65,115,104,114,121>>, 311817950, 298848210>>,  \* Kafr Ashry
       <<365, <<65,108,32,87,97,114,100,105,121,97,110>>, 311626030, 298667320>>,  \* Al Wardiyan
       <<367, <<65,108,32,71,97,109,97,108,32,77,111,115,113,117,101>>, 311680110, 298690200>>,  \* Al Gamal Mosque
       <<369, <<65,108,32,87,97,114,100,105,121,97,110,32,80,111,108,105,99,101,32,83,116,97,116,105,111,110>>, 311641150, 298637240>>,  \* Al Wardiyan Police Station
       <<371, <<68,105,115,104,32,72,111,114,117,115>>, 311679530, 298724150>>,  \* Dish Horus
       <<373, <<65,108,32,81,105,98,97,114,121,32,66,114,105,100,103,101>>, 311768250, 298791210>>,  \* Al Qibary Bridge
       <<375, <<70,97,116,109,97,32,65,108,32,90,97,104,114,97,97,32,45,32,77,97,114,115,97,32,77,97,116,114,111,117,104,32,82,100>>, 311085340, 297852940>>,  \* Fatma Al Zahraa - Marsa Matrouh Rd
       <<377, <<65,103,97,109,121,32,83,116,97,114>>, 311102510, 297879840>>,  \* Agamy Star
       <<379, <<65,108,32,66,105,116,97,115,104>>, 311144770, 297943050>>,  \* Al Bitash
       <<382, <<83,104,97,104,114,32,65,108,32,65,115,97,108>>, 311330500, 297838600>>,  \* Shahr Al Asal
       <<383, <<80,111,114,116,32,71,97,116,101>>, 311220730, 298053470>>,  \* Port Gate
       <<385, <<82,111,121,97,108,32,67,111,109,112,108,101,120,32,72,97,108,108>>, 311283220, 298133660>>,  \* Royal Complex Hall
       <<387, <<70,97,104,109,121,32,82,101,115,116,97,117,114,97,110,116>>, 311335280, 298191340>>,  \* Fahmy Restaurant
       <<388, <<65,108,32,77,111,104,97,110,100,101,115,32,77,97,108,108>>, 311350120, 298216440>>,  \* Al Mohandes Mall
       <<389, <<77,111,115,116,97,97,109,97,114,97>>, 310651890, 298164080>>,  \* Mostaamara
       <<391, <<65,98,100,101,108,32,75,97,100,101,114,32,69,110,116,114,97,110,99,101>>, 310787250, 298420120>>,  \* Abdel Kader Entrance
       <<393, <<65,98,100,101,108,32,75,97,100,101,114,32,83,116,97,116,105,111,110>>, 310730210, 298502060>>,  \* Abdel Kader Station
       <<395, <<84,111,115,104,107,121,32,69,110,116,114,97,110,99,101>>, 310912000, 298528640>>,  \* Toshky Entrance
       <<397, <<65,98,105,115,32,56>>, 311272550, 299427710>>,  \* Abis 8
       <<398, <<72,105,103,104,32,83,112,101,101,100,32,82,97,105,108,32,83,116,97,116,105,111,110>>, 311533560, 299226010>>,  \* High Speed Rail Station
       <<400, <<75,97,114,109,111,117,122,32,72,111,115,112,105,116,97,108>>, 311873310, 298942230>>,  \* Karmouz Hospital
       <<402, <<65,108,101,120,97,110,100,114,105,97,32,83,116,97,100,105,117,109>>, 311962570, 299128300>>,  \* Alexandria Stadium
       <<404, <<77,111,104,97,114,97,109,32,66,101,107,32,66,114,105,100,103,101>>, 311928720, 299231800>>,  \* Moharam Bek Bridge
       <<406, <<83,117,101,122,32,67,97,110,97,108,32,80,101,100,101,115,116,114,105,97,110,32,66,114,105,100,103,101>>, 311954900, 299201530>>,  \* Suez Canal Pedestrian Bridge
       <<409, <<66,97,98,32,83,104,97,114,113>>, 312012520, 299159870>>,  \* Bab Sharq
       <<412, <<82,97,104,109,97,110,32,77,111,115,113,117,101>>, 312056540, 299099550>>,  \* Rahman Mosque
       <<413, <<77,105,115,114,32,71,97,115,32,83,116,97,116,105,111,110,32,45,32,73,98,114,97,104,105,109,101,121,97>>, 312077720, 299294260>>,  \* Misr Gas Station - Ibrahimeya
       <<415, <<83,104,97,114,113,105,32,87,97,116,101,114,32,83,116,97,116,105,111,110>>, 312001040, 299191920>>,  \* Sharqi Water Station
       <<416, <<72,97,100,114,97>>, 312013770, 299333600>>,  \* Hadra
       <<418, <<75,97,98,111>>, 311991180, 299333440>>,  \* Kabo
       <<420, <<75,97,114,109,117,115>>, 311795120, 299015650>>,  \* Karmus
       <<423, <<77,111,104,97,114,97,109,32,66,101,107>>, 311838120, 299265130>>,  \* Moharam Bek
       <<425, <<69,108,32,77,97,119,113,97,102,32,69,108,32,71,101,100,101,100>>, 311801340, 299136270>>,  \* El Mawqaf El Geded
       <<429, <<78,111,122,104,97,32,65,100,109,105,110,105,115,116,114,97,116,105,111,110>>, 311882510, 299380240>>,  \* Nozha Administration
       <<431, <<83,101,107,97,32,72,97,100,101,101,100,32,66,114,105,100,103,101>>, 311974340, 299538590>>,  \* Seka Hadeed Bridge
       <<434, <<78,97,118,121,32,80,111,108,105,99,101,32,83,116,97,116,105,111,110>>, 311247830, 298943530>>,  \* Navy Police Station
       <<436, <<77,97,107,115,32,80,111,115,116,32,79,102,102,105,99,101>>, 311510760, 298417830>>,  \* Maks Post Office
       <<438, <<73,116,97,108,105,97,110,32,72,111,115,112,105,116,97,108>>, 311998890, 299256720>>,  \* Italian Hospital
       <<439, <<77,97,122,114,111,97,32,71,111,108,100>>, 312327760, 299617500>>,  \* Mazroa Gold
       <<440, <<86,105,99,116,111,114,105,97,32,83,116,97,116,105,111,110>>, 312491110, 299804770>>,  \* Victoria Station
       <<441, <<66,97,104,101,101,103,32,83,113,117,97,114,101>>, 309016230, 295443110>>,  \* Baheeg Square
       <<442, <<65,108,45,77,105,108,97,104,97>>, 312636730, 300285060>>,  \* Al-Milaha
       <<443, <<69,103,121,112,116,105,97,110,32,82,101,100,32,67,114,101,115,99,101,110,116,32,45,32,66,97,107,117,115>>, 312308420, 299720460>>,  \* Egyptian Red Crescent - Bakus
       <<444, <<69,108,45,82,97,115,115,97,102,97>>, 311911880, 299189100>>,  \* El-Rassafa
       <<445, <<69,108,32,65,119,97,121,101,100>>, 312187030, 299944910>>,  \* El Awayed
       <<446, <<65,108,32,83,101,121,111,117,102>>, 312411040, 299973840>>,  \* Al Seyouf
       <<447, <<70,97,108,97,107,105,32,45,32,65,108,32,83,101,121,111,117,102>>, 312413750, 299988260>> >>  \* Falaki - Al Seyouf

\* src/geocoding_full.py:267-286  arabic_translations (dict, in iteration order:
\* a sequence of <<key, value>> pairs; text is a tuple of code points)
arabic_translations ==
    << <<<<83,116,97,116,105,111,110>>, <<<<1605,1581,1591,1577>>, <<1575,1587,1578,1610,1588,1606>>>>>>,  \* Station -> ['محطة', 'استيشن']
       <<<<72,111,115,112,105,116,97,108>>, <<<<1605,1587,1578,1588,1601,1609>>, <<1607,1608,1587,1576,1610,1578,1575,1604>>>>>>,  \* Hospital -> ['مستشفى', 'هوسبيتال']
       <<<<83,99,104,111,111,108>>, <<<<1605,1583,1585,1587,1577>>, <<1587,1603,1608,1604,1607>>>>>>,  \* School -> ['مدرسة', 'سكوله']
       <<<<67,108,117,98>>, <<<<1606,1575,1583,1610>>, <<1603,1604,1608,1576>>>>>>,  \* Club -> ['نادي', 'كلوب']
       <<<<66,114,105,100,103,101>>, <<<<1603,1608,1576,1585,1610>>, <<1580,1587,1585>>>>>>,  \* Bridge -> ['كوبري', 'جسر']
       <<<<83,113,117,97,114,101>>, <<<<1605,1610,1583,1575,1606>>, <<1587,1603,1608,1610,1585>>>>>>,  \* Square -> ['ميدان', 'سكوير']
       <<<<77,111,115,113,117,101>>, <<<<1605,1587,1580,1583>>, <<1580,1575,1605,1593>>>>>>,  \* Mosque -> ['مسجد', 'جامع']
       <<<<80,111,108,105,99,101>>, <<<<1588,1585,1591,1577>>, <<1576,1608,1604,1610,1587>>>>>>,  \* Police -> ['شرطة', 'بوليس']
       <<<<85,110,105,118,101,114,115,105,116,121>>, <<<<1580,1575,1605,1593,1577>>, <<1610,1608,1606,1610,1601,1585,1587,1610,1578,1610>>>>>>,  \* University -> ['جامعة', 'يونيفرسيتي']
       <<<<80,111,115,116,32,79,102,102,105,99,101>>, <<<<1605,1603,1578,1576,32,1576,1585,1610,1583>>, <<1576,1608,1587,1591,1577>>>>>>,  \* Post Office -> ['مكتب بريد', 'بوسطة']
       <<<<71,97,115,32,83,116,97,116,105,111,110>>, <<<<1605,1581,1591,1577,32,1576,1606,1586,1610,1606>>, <<1580,1575,1586,1610,1585,1607>>>>>>,  \* Gas Station -> ['محطة بنزين', 'جازيره']
       <<<<84,117,110,110,101,108>>, <<<<1606,1601,1602>>, <<1578,1608,1606,1610,1604>>>>>>,  \* Tunnel -> ['نفق', 'تونيل']
       <<<<77,97,114,107,101,116>>, <<<<1587,1608,1602>>, <<1605,1575,1585,1603,1578>>>>>>,  \* Market -> ['سوق', 'ماركت']
       <<<<77,97,108,108>>, <<<<1605,1608,1604>>, <<1587,1606,1578,1585>>>>>>,  \* Mall -> ['مول', 'سنتر']
       <<<<70,97,99,116,111,114,121>>, <<<<1605,1589,1606,1593>>, <<1601,1575,1576,1585,1610,1603,1575>>>>>>,  \* Factory -> ['مصنع', 'فابريكا']
       <<<<71,97,116,101>>, <<<<1576,1608,1575,1576,1577>>, <<1580,1610,1578>>>>>>,  \* Gate -> ['بوابة', 'جيت']
       <<<<67,97,102,101>>, <<<<1603,1575,1601,1610,1607>>, <<1602,1607,1608,1577>>>>>>,  \* Cafe -> ['كافيه', 'قهوة']
       <<<<82,101,115,116,97,117,114,97,110,116>>, <<<<1605,1591,1593,1605>>, <<1585,1610,1587,1578,1608,1585,1575,1606>>>>>> >>  \* Restaurant -> ['مطعم', 'ريستوران']

\* src/geocoding_full.py:289-312  location_aliases (dict, in iteration order:
\* a sequence of <<key, value>> pairs; text is a tuple of code points)
location_aliases ==
    << <<<<86,105,99,116,111,114,105,97>>, <<<<1601,1610,1603,1578,1608,1585,1610,1575>>, <<1601,1610,1603,1578,1608,1585,1610>>>>>>,  \* Victoria -> ['فيكتوريا', 'فيكتوري']
       <<<<77,111,110,116,97,122,97,104>>, <<<<1575,1604,1605,1606,1578,1586,1607>>, <<1605,1606,1578,1586,1607>>, <<1605,1606,1578,1586,1577>>>>>>,  \* Montazah -> ['المنتزه', 'منتزه', 'منتزة']
       <<<<83,105,100,105,32,71,97,98,101,114>>, <<<<1587,1610,1583,1610,32,1580,1575,1576,1585>>, <<1587,1610,1583,1609,32,1580,1575,1576,1585>>>>>>,  \* Sidi Gaber -> ['سيدي جابر', 'سيدى جابر']
       <<<<82,97,109,108>>, <<<<1575,1604,1585,1605,1604>>, <<1585,1605,1604>>>>>>,  \* Raml -> ['الرمل', 'رمل']
       <<<<77,97,110,115,104,101,121,97>>, <<<<1575,1604,1605,1606,1588,1610,1577>>, <<1605,1606,1588,1610,1577>>>>>>,  \* Mansheya -> ['المنشية', 'منشية']
       <<<<83,105,100,105,32,66,105,115,104,114>>, <<<<1587,1610,1583,1610,32,1576,1588,1585>>, <<1587,1610,1583,1609,32,1576,1588,1585>>>>>>,  \* Sidi Bishr -> ['سيدي بشر', 'سيدى بشر']
       <<<<71,108,101,101,109>>, <<<<1580,1604,1610,1605>>>>>>,  \* Gleem -> ['جليم']
       <<<<83,112,111,114,116,105,110,103>>, <<<<1575,1604,1587,1576,1608,1585,1578,1606,1580>>, <<1587,1576,1608,1585,1578,1606,1580>>>>>>,  \* Sporting -> ['السبورتنج', 'سبورتنج']
       <<<<83,109,111,117,104,97>>, <<<<1587,1605,1608,1581,1577>>>>>>,  \* Smouha -> ['سموحة']
       <<<<75,97,114,109,111,117,122>>, <<<<1603,1585,1605,1608,1586>>>>>>,  \* Karmouz -> ['كرموز']
       <<<<65,98,117,32,81,105,114>>, <<<<1571,1576,1608,32,1602,1610,1585>>, <<1575,1576,1608,32,1602,1610,1585>>>>>>,  \* Abu Qir -> ['أبو قير', 'ابو قير']
       <<<<65,103,97,109,121>>, <<<<1575,1604,1593,1580,1605,1610>>>>>>,  \* Agamy -> ['العجمي']
       <<<<83,116,97,110,108,101,121>>, <<<<1587,1578,1575,1606,1604,1610>>>>>>,  \* Stanley -> ['ستانلي']
       <<<<83,97,110,32,83,116,101,102,97,110,111>>, <<<<1587,1575,1606,32,1587,1578,1610,1601,1575,1606,1608>>>>>>,  \* San Stefano -> ['سان ستيفانو']
       <<<<77,105,97,109,105>>, <<<<1605,1610,1575,1605,1610>>>>>>,  \* Miami -> ['ميامي']
       <<<<66,97,104,97,114,121>>, <<<<1575,1604,1576,1581,1585,1610>>>>>>,  \* Bahary -> ['البحري']
       <<<<65,115,97,102,114,97>>, <<<<1575,1604,1593,1589,1601,1585,1577>>>>>>,  \* Asafra -> ['العصفرة']
       <<<<77,97,110,100,97,114,97>>, <<<<1575,1604,1605,1606,1583,1585,1577>>>>>>,  \* Mandara -> ['المندرة']
       <<<<65,109,114,101,121,97>>, <<<<1575,1604,1593,1575,1605,1585,1610,1577>>>>>>,  \* Amreya -> ['العامرية']
       <<<<70,97,108,97,107,105>>, <<<<1575,1604,1601,1604,1603,1610>>, <<1601,1604,1603,1610>>>>>>,  \* Falaki -> ['الفلكي', 'فلكي']
       <<<<83,101,121,111,117,102>>, <<<<1575,1604,1587,1610,1608,1601>>>>>>,  \* Seyouf -> ['السيوف']
       <<<<75,104,111,114,115,104,105,100>>, <<<<1582,1608,1585,1588,1610,1583>>>>>> >>  \* Khorshid -> ['خورشيد']

\* src/geocoding_full.py:356-368  arabic_patterns (dict, in iteration order:
\* a sequence of <<key, value>> pairs; text is a tuple of code points)
arabic_patterns ==
    << <<<<1575,1604,1601,1604,1603,1610>>, <<70,97,108,97,107,105>>>>,  \* الفلكي -> Falaki
       <<<<1601,1604,1603,1610>>, <<70,97,108,97,107,105>>>>,  \* فلكي -> Falaki
       <<<<1575,1604,1587,1610,1608,1601>>, <<83,101,121,111,117,102>>>>,  \* السيوف -> Seyouf
       <<<<1587,1610,1608,1601>>, <<83,101,121,111,117,102>>>>,  \* سيوف -> Seyouf
       <<<<1587,1610,1583,1610,32,1580,1575,1576,1585>>, <<83,105,100,105,32,71,97,98,101,114>>>>,  \* سيدي جابر -> Sidi Gaber
       <<<<1587,1610,1583,1609,32,1580,1575,1576,1585>>, <<83,105,100,105,32,71,97,98,101,114>>>>,  \* سيدى جابر -> Sidi Gaber
       <<<<1601,1610,1603,1578,1608,1585,1610,1575>>, <<86,105,99,116,111,114,105,97>>>>,  \* فيكتوريا -> Victoria
       <<<<1575,1604,1605,1606,1578,1586,1607>>, <<77,111,110,116,97,122,97,104>>>>,  \* المنتزه -> Montazah
       <<<<1605,1606,1578,1586,1607>>, <<77,111,110,116,97,122,97,104>>>>,  \* منتزه -> Montazah
       <<<<1575,1604,1585,1605,1604>>, <<82,97,109,108>>>>,  \* الرمل -> Raml
       <<<<1585,1605,1604>>, <<82,97,109,108>>>> >>  \* رمل -> Raml

\* src/transit_agent_final.py:58-65  egyptian_patterns (dict, in iteration order:
\* a sequence of <<key, value>> pairs; text is a tuple of code points)
egyptian_patterns ==
    << <<<<1593,1575,1610,1586>>, <<1571,1585,1610,1583>>>>,  \* عايز -> أريد
       <<<<1593,1575,1610,1586,1577>>, <<1571,1585,1610,1583>>>>,  \* عايزة -> أريد
       <<<<1593,1575,1608,1586>>, <<1571,1585,1610,1583>>>>,  \* عاوز -> أريد
       <<<<1593,1575,1608,1586,1577>>, <<1571,1585,1610,1583>>>>,  \* عاوزة -> أريد
       <<<<1585,1608,1581>>, <<1575,1584,1607,1576>>>>,  \* روح -> اذهب
       <<<<1585,1608,1581,1577>>, <<1575,1584,1607,1576>>>>,  \* روحة -> اذهب
       <<<<1585,1608,1581,1607>>, <<1575,1584,1607,1576>>>>,  \* روحه -> اذهب
       <<<<1573,1586,1575,1610>>, <<1603,1610,1601>>>>,  \* إزاي -> كيف
       <<<<1575,1586,1575,1610>>, <<1603,1610,1601>>>>,  \* ازاي -> كيف
       <<<<1573,1605,1578,1609>>, <<1605,1578,1609>>>>,  \* إمتى -> متى
       <<<<1605,1606,1610,1606>>, <<1605,1606,32,1571,1610,1606>>>>,  \* منين -> من أين
       <<<<1601,1610,1606>>, <<1571,1610,1606>>>>,  \* فين -> أين
       <<<<1604,1610,1607>>, <<1604,1605,1575,1584,1575>>>>,  \* ليه -> لماذا
       <<<<1575,1604,1605,1606,1588,1610,1577>>, <<1575,1604,1605,1606,1588,1610,1577>>>>,  \* المنشية -> المنشية
       <<<<1605,1606,1588,1610,1577>>, <<1575,1604,1605,1606,1588,1610,1577>>>>,  \* منشية -> المنشية
       <<<<1575,1604,1587,1610,1608,1601>>, <<1575,1604,1587,1610,1608,1601>>>>,  \* السيوف -> السيوف
       <<<<1587,1610,1608,1601>>, <<1575,1604,1587,1610,1608,1601>>>>,  \* سيوف -> السيوف
       <<<<1587,1610,1601>>, <<1575,1604,1587,1610,1608,1601>>>> >>  \* سيف -> السيوف

\* src/transit_agent_final.py:80-115  patterns (list of texts)
patterns ==
    << <<1571,1585,1610,1583,92,115,43,1575,1604,1584,1607,1575,1576,92,115,43,1605,1606,92,115,43,40,46,43,63,41,92,115,43,1573,1604,1609,92,115,43,40,46,43,41>>,  \* أريد\s+الذهاب\s+من\s+(.+?)\s+إلى\s+(.+)
       <<1603,1610,1601,92,115,43,1571,1589,1604,92,115,43,1605,1606,92,115,43,40,46,43,63,41,92,115,43,1573,1604,1609,92,115,43,40,46,43,41>>,  \* كيف\s+أصل\s+من\s+(.+?)\s+إلى\s+(.+)
       <<1605,1606,92,115,43,40,46,43,63,41,92,115,43,1573,1604,1609,92,115,43,40,46,43,41>>,  \* من\s+(.+?)\s+إلى\s+(.+)
       <<1605,1606,92,115,43,40,46,43,63,41,92,115,43,1604,1600,92,115,42,40,46,43,41>>,  \* من\s+(.+?)\s+لـ\s*(.+)
       <<1593,1575,1610,1586,92,115,43,1571,1585,1608,1581,92,115,43,1605,1606,92,115,43,40,46,43,63,41,92,115,43,1573,1604,1609,92,115,43,40,46,43,41>>,  \* عايز\s+أروح\s+من\s+(.+?)\s+إلى\s+(.+)
       <<1593,1575,1610,1586,1577,92,115,43,1571,1585,1608,1581,92,115,43,1605,1606,92,115,43,40,46,43,63,41,92,115,43,1573,1604,1609,92,115,43,40,46,43,41>>,  \* عايزة\s+أروح\s+من\s+(.+?)\s+إلى\s+(.+)
       <<1593,1575,1608,1586,92,115,43,1571,1585,1608,1581,92,115,43,1605,1606,92,115,43,40,46,43,63,41,92,115,43,1573,1604,1609,92,115,43,40,46,43,41>>,  \* عاوز\s+أروح\s+من\s+(.+?)\s+إلى\s+(.+)
       <<1593,1575,1608,1586,1577,92,115,43,1571,1585,1608,1581,92,115,43,1605,1606,92,115,43,40,46,43,63,41,92,115,43,1573,1604,1609,92,115,43,40,46,43,41>>,  \* عاوزة\s+أروح\s+من\s+(.+?)\s+إلى\s+(.+)
       <<1573,1586,1575,1610,92,115,43,1571,1585,1608,1581,92,115,43,1605,1606,92,115,43,40,46,43,63,41,92,115,43,1573,1604,1609,92,115,43,40,46,43,41>>,  \* إزاي\s+أروح\s+من\s+(.+?)\s+إلى\s+(.+)
       <<1575,1586,1575,1610,92,115,43,1571,1585,1608,1581,92,115,43,1605,1606,92,115,43,40,46,43,63,41,92,115,43,1604,1600,92,115,42,40,46,43,41>>,  \* ازاي\s+أروح\s+من\s+(.+?)\s+لـ\s*(.+)
       <<104,111,119,92,115,43,100,111,92,115,43,105,92,115,43,103,111,92,115,43,102,114,111,109,92,115,43,40,46,43,63,41,92,115,43,116,111,92,115,43,40,46,43,41>>,  \* how\s+do\s+i\s+go\s+from\s+(.+?)\s+to\s+(.+)
       <<114,111,117,116,101,92,115,43,102,114,111,109,92,115,43,40,46,43,63,41,92,115,43,116,111,92,115,43,40,46,43,41>>,  \* route\s+from\s+(.+?)\s+to\s+(.+)
       <<102,114,111,109,92,115,43,40,46,43,63,41,92,115,43,116,111,92,115,43,40,46,43,41>>,  \* from\s+(.+?)\s+to\s+(.+)
       <<105,92,115,43,119,97,110,116,92,115,43,116,111,92,115,43,103,111,92,115,43,102,114,111,109,92,115,43,40,46,43,63,41,92,115,43,116,111,92,115,43,40,46,43,41>>,  \* i\s+want\s+to\s+go\s+from\s+(.+?)\s+to\s+(.+)
       <<116,114,97,118,101,108,92,115,43,102,114,111,109,92,115,43,40,46,43,63,41,92,115,43,116,111,92,115,43,40,46,43,41>>,  \* travel\s+from\s+(.+?)\s+to\s+(.+)
       <<1605,1606,92,115,43,40,46,43,63,41,92,115,43,1604,1601,1610,1603,1578,1608,1585,1610,1575>>,  \* من\s+(.+?)\s+لفيكتوريا
       <<1605,1606,92,115,43,40,46,43,63,41,92,115,43,1604,1604,1605,1606,1578,1586,1607>>,  \* من\s+(.+?)\s+للمنتزه
       <<1605,1606,92,115,43,40,46,43,63,41,92,115,43,1604,1587,1610,1583,1610,92,115,43,1580,1575,1576,1585>>,  \* من\s+(.+?)\s+لسيدي\s+جابر
       <<1605,1606,92,115,43,40,46,43,63,41,92,115,43,1604,1604,1585,1605,1604>>,  \* من\s+(.+?)\s+للرمل
       <<1605,1606,92,115,43,40,46,43,63,41,92,115,43,1604,1604,1601,1604,1603,1610>>,  \* من\s+(.+?)\s+للفلكي
       <<1605,1606,92,115,43,40,46,43,63,41,92,115,43,1604,1587,1610,1583,1610,92,115,43,1576,1588,1585>>,  \* من\s+(.+?)\s+لسيدي\s+بشر
       <<1605,1606,92,115,43,40,46,43,63,41,92,115,43,1604,1580,1604,1610,1605>>,  \* من\s+(.+?)\s+لجليم
       <<1605,1606,92,115,43,40,46,43,63,41,92,115,43,1604,1604,1587,1576,1608,1585,1578,1606,1580>>,  \* من\s+(.+?)\s+للسبورتنج
       <<1605,1606,92,115,43,40,46,43,63,41,92,115,43,1604,1587,1605,1608,1581,1577>>,  \* من\s+(.+?)\s+لسموحة
       <<1605,1606,92,115,43,40,46,43,63,41,92,115,43,1604,1603,1585,1605,1608,1586>>,  \* من\s+(.+?)\s+لكرموز
       <<1605,1606,92,115,43,40,46,43,63,41,92,115,43,1604,1604,1587,1610,1608,1601>>,  \* من\s+(.+?)\s+للسيوف
       <<1605,1606,92,115,43,40,46,43,63,41,92,115,43,1604,1604,1605,1606,1588,1610,1577>> >>  \* من\s+(.+?)\s+للمنشية

\* src/transit_agent_final.py:127-140  destination_map (dict, in iteration order:
\* a sequence of <<key, value>> pairs; text is a tuple of code points)
destination_map ==
    << <<<<1604,1601,1610,1603,1578,1608,1585,1610,1575>>, <<1601,1610,1603,1578,1608,1585,1610,1575>>>>,  \* لفيكتوريا -> فيكتوريا
       <<<<1604,1604,1605,1606,1578,1586,1607>>, <<1575,1604,1605,1606,1578,1586,1607>>>>,  \* للمنتزه -> المنتزه
       <<<<1604,1587,1610,1583,1610,32,1580,1575,1576,1585>>, <<1587,1610,1583,1610,32,1580,1575,1576,1585>>>>,  \* لسيدي جابر -> سيدي جابر
       <<<<1604,1604,1585,1605,1604>>, <<1575,1604,1585,1605,1604>>>>,  \* للرمل -> الرمل
       <<<<1604,1604,1601,1604,1603,1610>>, <<1575,1604,1601,1604,1603,1610>>>>,  \* للفلكي -> الفلكي
       <<<<1604,1587,1610,1583,1610,32,1576,1588,1585>>, <<1587,1610,1583,1610,32,1576,1588,1585>>>>,  \* لسيدي بشر -> سيدي بشر
       <<<<1604,1580,1604,1610,1605>>, <<1580,1604,1610,1605>>>>,  \* لجليم -> جليم
       <<<<1604,1604,1587,1576,1608,1585,1578,1606,1580>>, <<1575,1604,1587,1576,1608,1585,1578,1606,1580>>>>,  \* للسبورتنج -> السبورتنج
       <<<<1604,1587,1605,1608,1581,1577>>, <<1587,1605,1608,1581,1577>>>>,  \* لسموحة -> سموحة
       <<<<1604,1603,1585,1605,1608,1586>>, <<1603,1585,1605,1608,1586>>>>,  \* لكرموز -> كرموز
       <<<<1604,1604,1587,1610,1608,1601>>, <<1575,1604,1587,1610,1608,1601>>>>,  \* للسيوف -> السيوف
       <<<<1604,1604,1605,1606,1588,1610,1577>>, <<1575,1604,1605,1606,1588,1610,1577>>>> >>  \* للمنشية -> المنشية

\* src/transit_agent_final.py:262-265  microbus_keywords (list of texts)
microbus_keywords ==
    << <<109,105,99,114,111,98,117,115>>,  \* microbus
       <<109,105,99,114,111>>,  \* micro
       <<109,105,110,105,98,117,115>>,  \* minibus
       <<109,105,110,105,32,98,117,115>>,  \* mini bus
       <<1605,1610,1603,1585,1608,1576,1575,1589>>,  \* ميكروباص
       <<1605,1610,1603,1585,1608>>,  \* ميكرو
       <<1605,1610,1606,1610>>,  \* ميني
       <<1605,1610,1606,1610,32,1576,1575,1589>>,  \* ميني باص
       <<1605,1588,1585,1608,1593>>,  \* مشروع
       <<1578,1608,1606,1610,1575>>,  \* تونيا
       <<1578,1608,1606,1610,1577>>,  \* تونية
       <<1578,1608,1606,1610,1575,1578>>,  \* تونيات
       <<1578,1608,1606,1575,1610,1577>> >>  \* توناية
----------------------------------------------------------------------------
(* Gazetteer: geocoding_full.py *)

\* The values of a translation table whose English key, lowercased, occurs in
\* the lowercased name part.
Translations(table, part) ==
    UNION { Range(table[k][2]) :
            k \in {k \in DOMAIN table : In(lower(table[k][1]), lower(part))} }

\* AlexandriaGeocoder._generate_aliases.  The result is list(set(...)): its
\* members are modelled as a set, its order is implementation-defined.
generate_aliases(stop_name) ==
    LET name_parts == split(stop_name)
        all == {stop_name, lower(stop_name)}
               \cup UNION { {lower(part)}
                            \cup Translations(arabic_translations, part)
                            \cup Translations(location_aliases, part) :
                            part \in Range(name_parts) }
    IN  {alias \in all : alias # << >>}

\* AlexandriaGeocoder._load_all_alexandria_stops
load_all_alexandria_stops ==
    [i \in DOMAIN stops_data |->
        [stop_id   |-> stops_data[i][1],
         stop_name |-> stops_data[i][2],
         stop_lat  |-> stops_data[i][3],
         stop_lon  |-> stops_data[i][4],
         aliases   |-> generate_aliases(stops_data[i][2])]]

\* A faulty store, which keeps the stop a key already maps to.
dict_store_keep_first(d, e) ==
    [k \in DOMAIN d \cup DOMAIN e |-> IF k \in DOMAIN d THEN d[k] ELSE e[k]]

\* The stores stop_dict[alias.lower()] = stop that made e, applied to d.  An
\* entry holds the stop it maps to and pos, the number of the stop that
\* inserted the key: a dict iterates in insertion order and an overwritten
\* key takes the new value and keeps its place, so pos orders the keys up to
\* the order of one stop's own aliases.
dict_store(d, e) ==
    [k \in DOMAIN d \cup DOMAIN e |->
        IF k \in DOMAIN e
        THEN [stop |-> e[k].stop,
              pos  |-> IF k \in DOMAIN d THEN d[k].pos ELSE e[k].pos]
        ELSE d[k]]

\* The inner loop of _create_stop_dictionary for stop number n, on an empty
\* dict: every lowercased alias maps to the stop.
stop_entries(sts, n) ==
    [k \in {lower(alias) : alias \in sts[n].aliases} |-> [stop |-> n, pos |-> n]]

\* The outer loop of _create_stop_dictionary over the stops lo..hi, on an
\* empty dict: the stores of its first half, then those of its second half
\* (the loop runs the stops in list order; halving it keeps the evaluation
\* shallow).
RECURSIVE create_stop_dictionary_range(_, _, _)
create_stop_dictionary_range(sts, lo, hi) ==
    IF lo > hi THEN << >>
    ELSE IF lo = hi THEN stop_entries(sts, lo)
    ELSE LET mid == (lo + hi) \div 2
         IN  dict_store(create_stop_dictionary_range(sts, lo, mid),
                        create_stop_dictionary_range(sts, mid + 1, hi))

\* AlexandriaGeocoder._create_stop_dictionary
create_stop_dictionary(sts) == create_stop_dictionary_range(sts, 1, Len(sts))

\* return stop.stop_lat, stop.stop_lon, stop.stop_name
Coords(stop) == <<stop.stop_lat, stop.stop_lon, stop.stop_name>>

\* The pattern-matching stage of geocode: the first Arabic anchor, in table
\* order, that occurs in the input and whose English name occurs in the name
\* of a stop gives the first such stop.
geocode_arabic(location_lower) ==
    LET hit(p, i) == /\ In(arabic_patterns[p][1], location_lower)
                     /\ In(lower(arabic_patterns[p][2]), lower(stops[i].stop_name))
        ps == {p \in DOMAIN arabic_patterns : \E i \in DOMAIN stops : hit(p, i)}
    IN  IF ps = {} THEN None
        ELSE LET p == Min(ps)
             IN  Coords(stops[Min({i \in DOMAIN stops : hit(p, i)})])

\* The fuzzy stage of geocode: the first key of stop_dict, in iteration order,
\* that contains the input or occurs in it.  The keys that one stop inserted
\* are in the order of list(set(...)), which the build does not fix: every key
\* of the earliest inserting stop can be the first.
geocode_fuzzy(location_lower) ==
    LET hits  == {alias \in DOMAIN stop_dict :
                    In(alias, location_lower) \/ In(location_lower, alias)}
        first == Min({stop_dict[alias].pos : alias \in hits})
    IN  {Coords(stops[stop_dict[alias].stop]) :
            alias \in {a \in hits : stop_dict[a].pos = first}}

\* A faulty geocoder, which scans for substrings before it looks the text up.
geocode_scan_first(location_name) ==
    LET location_lower == strip(lower(location_name))
    IN  IF \E alias \in DOMAIN stop_dict :
              In(alias, location_lower) \/ In(location_lower, alias)
        THEN geocode_fuzzy(location_lower)
        ELSE {geocode_arabic(location_lower)}

\* A faulty geocoder, whose scan takes the keys that occur in the text and
\* not the keys that contain it.
geocode_contained_only(location_name) ==
    LET location_lower == strip(lower(location_name))
        hits == {alias \in DOMAIN stop_dict : In(alias, location_lower)}
    IN  IF location_lower \in DOMAIN stop_dict
        THEN {Coords(stops[stop_dict[location_lower].stop])}
        ELSE IF hits # {}
        THEN {Coords(stops[stop_dict[alias].stop]) :
                 alias \in {a \in hits :
                               stop_dict[a].pos = Min({stop_dict[b].pos : b \in hits})}}
        ELSE {geocode_arabic(location_lower)}

\* AlexandriaGeocoder.geocode: the set of results the call can return (one
\* result, but for the order of the fuzzy stage).
geocode(location_name) ==
    LET location_lower == strip(lower(location_name))
    IN  IF location_lower \in DOMAIN stop_dict
        THEN {Coords(stops[stop_dict[location_lower].stop])}
        ELSE IF \E alias \in DOMAIN stop_dict :
                    In(alias, location_lower) \/ In(location_lower, alias)
        THEN geocode_fuzzy(location_lower)
        ELSE {geocode_arabic(location_lower)}

----------------------------------------------------------------------------
(* The geocoder alone: one call of geocode on a bounded set of inputs *)

\* Every alias of every stop (the names and the lowercased names are aliases).
AllAliases == UNION {load_all_alexandria_stops[i].aliases : i \in DOMAIN stops_data}

\* Texts that are no alias: texts that only the substring scan resolves,
\* texts that only the Arabic anchors resolve, and texts that nothing resolves
OtherTexts ==
    {<<115, 105, 100, 105, 32, 103, 97, 98, 101, 114>>, <<113>>, <<32, 32, 83, 105, 100, 105, 32, 66, 105, 115, 104, 114, 32, 32>>, <<>>, <<32>>,
     \* سيوف
     <<1587, 1610, 1608, 1601>>,
     \* سيدي جابر
     <<1587, 1610, 1583, 1610, 32, 1580, 1575, 1576, 1585>>,
     \* سيدى جابر
     <<1587, 1610, 1583, 1609, 32, 1580, 1575, 1576, 1585>>,
     \* جابر
     <<1580, 1575, 1576, 1585>>,
     <<113, 113, 113>>, <<35, 35>>, <<55>>}

GeocodeTexts == AllAliases \cup OtherTexts

\* The state after AlexandriaGeocoder.__init__
InitGazetteer ==
    /\ stops = load_all_alexandria_stops
    /\ stop_dict = create_stop_dictionary(load_all_alexandria_stops)

InitGeocode ==
    /\ InitGazetteer
    /\ fn = "geocode"
    /\ pc = "call"
    /\ arg \in GeocodeTexts
    /\ ret = None
    /\ NoQuery
    /\ NewStore

Geocode ==
    /\ fn = "geocode" /\ pc = "call"
    /\ ret' \in geocode(arg)
    /\ pc' = "done"
    /\ UNCHANGED <<waiting, store, stops, stop_dict, fn, arg, locals>>

NextGeocode == Geocode

SpecGeocode == InitGeocode /\ [][NextGeocode]_vars

----------------------------------------------------------------------------
(* Claims about the gazetteer *)

\* The stops that generate the alias a
Generators(a) == {i \in DOMAIN stops : a \in stops[i].aliases}

GeocodeDone == fn = "geocode" /\ pc = "done"

\* C1: for every Stop of the stop list, geocode of the lowercased canonical
\* name returns that Stop's own latitude, longitude and canonical name.
C1_GeocodeOwnName ==
    GeocodeDone =>
        \A i \in DOMAIN stops :
            arg = lower(stops[i].stop_name) => ret = Coords(stops[i])

\* C2: index construction yields a mapping in which every alias that more
\* than one Stop generates maps, by exact lookup, to exactly one Stop, the
\* latest in the stop list among the Stops that generate it; geocode of that
\* alias returns that Stop's coordinates and name.
C2_LastWriteWins ==
    (GeocodeDone /\ Cardinality(Generators(arg)) > 1) =>
        LET key == strip(lower(arg))
        IN  /\ key \in DOMAIN stop_dict
            /\ stop_dict[key].stop = Max(Generators(arg))
            /\ ret = Coords(stops[Max(Generators(arg))])

\* An alias of two stops with different coordinates was looked up and the
\* later stop came back.
C2_Witness ==
    /\ GeocodeDone
    /\ \E i, j \in Generators(arg) :
          /\ i < j
          /\ Coords(stops[i]) # Coords(stops[j])
          /\ j = Max(Generators(arg))
          /\ ret = Coords(stops[j])

----------------------------------------------------------------------------
(* Language detection and dialect normalisation: transit_agent_final.py *)

\* A faulty detector, which takes any character of the Arabic block for Arabic
\* text when the text has no letter.
detect_language_block_counts(text) ==
    LET arabic_chars == Cardinality({i \in 1..Len(text) : text[i] \in 1536..1791})
        total_chars  == Cardinality({i \in 1..Len(text) : isalpha(text[i])})
    IN  IF total_chars = 0 THEN (IF arabic_chars > 0 THEN "ar" ELSE "en")
        ELSE IF arabic_chars * 10 > 3 * total_chars THEN "ar" ELSE "en"

\* FinalTransitAgent.detect_language.  arabic_chars / total_chars > 0.3 is
\* decided on the integers: the quotient 3/10 rounds to the double 0.3 itself
\* (not greater), and any other quotient is further from 0.3 than a rounding.
detect_language(text) ==
    LET arabic_chars == Cardinality({i \in 1..Len(text) : text[i] \in 1536..1791})
        total_chars  == Cardinality({i \in 1..Len(text) : isalpha(text[i])})
    IN  IF total_chars = 0 THEN "en"
        ELSE IF arabic_chars * 10 > 3 * total_chars THEN "ar" ELSE "en"

\* The loop of normalize_egyptian_text from the table entry k on
RECURSIVE normalize_from(_, _)
normalize_from(text, k) ==
    IF k > Len(egyptian_patterns) THEN text
    ELSE normalize_from(
            replace(text, egyptian_patterns[k][1], egyptian_patterns[k][2]), k + 1)

\* FinalTransitAgent.normalize_egyptian_text
normalize_egyptian_text(text) == normalize_from(text, 1)

----------------------------------------------------------------------------
(* detect_language on every text of at most MaxLangLen characters *)

MaxLangLen == 3

\* a, A, 1, space; meem, Arabic comma, fatha, Arabic-Indic digit three
LangChars == {97, 65, 49, 32, 1605, 1548, 1614, 1635}

RECURSIVE TextsUpTo(_, _)
TextsUpTo(chars, n) ==
    IF n = 0 THEN {<< >>}
    ELSE LET shorter == TextsUpTo(chars, n - 1)
         IN  shorter \cup {Append(t, c) : t \in shorter, c \in chars}

LangTexts == TextsUpTo(LangChars, MaxLangLen)

InitLanguage ==
    /\ InitGazetteer
    /\ fn = "detect_language"
    /\ pc = "call"
    /\ arg \in LangTexts
    /\ ret = None
    /\ NoQuery
    /\ NewStore

DetectLanguage ==
    /\ fn = "detect_language" /\ pc = "call"
    /\ ret' = detect_language(arg)
    /\ pc' = "done"
    /\ UNCHANGED <<waiting, store, stops, stop_dict, fn, arg, locals>>

NextLanguage == DetectLanguage

SpecLanguage == InitLanguage /\ [][NextLanguage]_vars

----------------------------------------------------------------------------
(* normalize_egyptian_text, applied once and then again to its own result *)

MaxWords == 2

\* The colloquial and the place words of the table
NormalizeWords == {egyptian_patterns[k][1] : k \in DOMAIN egyptian_patterns}

\* At most n words, joined by single spaces
RECURSIVE Phrases(_, _)
Phrases(words, n) ==
    IF n <= 1 THEN words
    ELSE LET shorter == Phrases(words, n - 1)
         IN  shorter \cup {t \o <<32>> \o w : t \in shorter, w \in words}

NormalizeTexts == Phrases(NormalizeWords, MaxWords)

InitNormalize ==
    /\ InitGazetteer
    /\ fn = "normalize_egyptian_text"
    /\ pc = "call"
    /\ arg \in NormalizeTexts
    /\ ret = None
    /\ NoQuery
    /\ NewStore

Normalize ==
    /\ fn = "normalize_egyptian_text" /\ pc = "call"
    /\ ret' = normalize_egyptian_text(arg)
    /\ pc' = "done"
    /\ UNCHANGED <<waiting, store, stops, stop_dict, fn, arg, locals>>

\* The result is normalised again: arg is now the first result.
NormalizeAgain ==
    /\ fn = "normalize_egyptian_text" /\ pc = "done"
    /\ arg' = ret
    /\ ret' = normalize_egyptian_text(ret)
    /\ pc' = "again"
    /\ UNCHANGED <<waiting, store, stops, stop_dict, fn, locals>>

NextNormalize == Normalize \/ NormalizeAgain

SpecNormalize == InitNormalize /\ [][NextNormalize]_vars

----------------------------------------------------------------------------
(* Claims about normalisation and language detection *)

\* C3: dialect normalisation is idempotent: normalising a normalised text
\* gives the same text.
C3_NormalizeIdempotent ==
    (fn = "normalize_egyptian_text" /\ pc = "again") => ret = arg

LanguageDone == fn = "detect_language" /\ pc = "done"

OnlyArabicBlock(text) == \A i \in 1..Len(text) : text[i] \in 1536..1791
OnlyAsciiLetters(text) ==
    \A i \in 1..Len(text) : text[i] \in 65..90 \/ text[i] \in 97..122
NoLetter(text) == \A i \in 1..Len(text) : ~isalpha(text[i])

\* C4 as stated: "ar" for every non-empty text made only of characters of the
\* Arabic block, "en" for every text made only of ASCII letters, "en" for
\* every text without an alphabetic character.
C4_DetectLanguage ==
    LanguageDone =>
        /\ (arg # << >> /\ OnlyArabicBlock(arg)) => ret = "ar"
        /\ OnlyAsciiLetters(arg) => ret = "en"
        /\ NoLetter(arg) => ret = "en"

\* C4 amended: "ar" for every text made only of characters of the Arabic
\* block of which at least one is alphabetic; "en" for every text made only
\* of ASCII letters and for every text without an alphabetic character.
C4_DetectLanguageAmended ==
    LanguageDone =>
        /\ (OnlyArabicBlock(arg) /\ ~NoLetter(arg)) => ret = "ar"
        /\ OnlyAsciiLetters(arg) => ret = "en"
        /\ NoLetter(arg) => ret = "en"

\* A text of Arabic letters and Arabic marks came out "ar", and a text of
\* Arabic punctuation alone is in the input set.
C4_Witness ==
    /\ LanguageDone
    /\ arg # << >> /\ OnlyArabicBlock(arg) /\ ~NoLetter(arg)
    /\ \E i \in 1..Len(arg) : ~isalpha(arg[i])
    /\ ret = "ar"

----------------------------------------------------------------------------
(* Planner client: the normalisation of a raw itinerary, otp_client.py *)

\* A JSON object is a record whose every field is Absent (no such key), None
\* (null) or Some(value).  Durations are seconds and distances are metres,
\* both integers; a mode is the Planner's mode string.
Absent == <<"Absent">>

\* What a function returns: Ok(value), or Raise when it raises an exception.
Ok(x) == <<"Ok", x>>
Raise == <<"Raise">>

\* dict.get(key, default) and dict.get(key)
get(field, default) == IF field = Absent THEN default ELSE field
getn(field) == get(field, None)

\* (x or 0) for a number or None
OrZero(x) == IF x = None THEN 0 ELSE x[2]

\* bool(x) for None, a text Some(t), a number <<"Num", n>> or a list
\* <<"List", items>>: neither None, nor "", nor 0, nor []
Truthy(x) ==
    /\ x[1] # "None"
    /\ IF x[1] = "Num" THEN x[2] # 0 ELSE x[2] # << >>

\* bool(x) for a boolean or None
TruthyFlag(x) == x = Some(TRUE)

\* a or b
Or(a, b) == IF Truthy(a) THEN a ELSE b

\* A faulty conversion, which cuts the seconds off instead of rounding.
Truncate(n, d) == n \div d

\* int(round(n / d)) for integers n >= 0, d > 0: Python rounds a tie to the
\* even neighbour, and n / d is a tie only when it is exactly one.
RoundHalfEven(n, d) ==
    LET q == n \div d
        r == n % d
    IN  IF 2 * r < d THEN q
        ELSE IF 2 * r > d THEN q + 1
        ELSE IF q % 2 = 0 THEN q ELSE q + 1

\* The rounding of the double n / (d * u) to a whole number of units u, for
\* whole numbers n >= 0 and powers of ten d and d * u, as round(x, k) and
\* format(x, ".kf") compute it: the set of the possible results.  five is the
\* power of 5 in d * u.  A decimal tie goes to the even neighbour when
\* n / (d * u) is a double itself (n is a multiple of five); else the double
\* lies next to the tie, above or below, and either neighbour is possible.
RoundDecimal(n, d, five) ==
    LET q == n \div d
        r == n % d
    IN  IF 2 * r < d THEN {q}
        ELSE IF 2 * r > d THEN {q + 1}
        ELSE IF n % five = 0 THEN {IF q % 2 = 0 THEN q ELSE q + 1}
        ELSE {q, q + 1}

\* round(m / 1000.0, 2) for a whole number m of metres, in hundredths of a
\* kilometre
Round2(m) == RoundDecimal(m, 10, 125)

RECURSIVE SumSeq(_)
SumSeq(xs) == IF xs = << >> THEN 0 ELSE Head(xs) + SumSeq(Tail(xs))

\* "Unknown"
Unknown == Some(<<85, 110, 107, 110, 111, 119, 110>>)

\* leg.get("from", {}).get("name", "Unknown"): a null place raises
PlaceName(place) ==
    IF place = Absent THEN Ok(Unknown)
    ELSE IF place = None THEN Raise
    ELSE Ok(get(place[2], Unknown))

TransitModes == {"BUS", "TRAM", "RAIL", "SUBWAY", "FERRY"}

\* A faulty test, which takes every leg that is not a walk for a transit leg.
IsTransitLegNotWalk(leg) == getn(leg.mode) # Some("WALK")

\* leg.get("transitLeg") or leg.get("mode") in {"BUS", ...}
IsTransitLeg(leg) ==
    \/ TruthyFlag(getn(leg.transitLeg))
    \/ (getn(leg.mode) # None /\ getn(leg.mode)[2] \in TransitModes)

\* transit_legs = [leg for leg in legs if ...], by the positions kept;
\* transfers = max(0, len(transit_legs) - 1)
Transfers(legs) ==
    LET transit_legs == {i \in DOMAIN legs : IsTransitLeg(legs[i])}
        n == Cardinality(transit_legs)
    IN  IF n - 1 > 0 THEN n - 1 ELSE 0

\* One OTPLeg of _parse_itinerary.  distance_km is kept in metres (the
\* quotient by 1000.0 is not rounded).
ParseLeg(leg) ==
    [mode             |-> get(leg.mode, Some("WALK")),
     from_name        |-> PlaceName(leg.from)[2],
     to_name          |-> PlaceName(leg.to)[2],
     duration_min     |-> RoundHalfEven(OrZero(getn(leg.duration)), 60),
     distance_km      |-> OrZero(getn(leg.distance)),
     route            |-> Or(getn(leg.route),
                             Or(getn(leg.routeShortName), getn(leg.routeLongName))),
     route_short_name |-> getn(leg.routeShortName),
     route_long_name  |-> getn(leg.routeLongName),
     headsign         |-> getn(leg.headsign),
     agency_name      |-> getn(leg.agencyName),
     route_type       |-> getn(leg.routeType)]

\* A faulty walking time, which adds up the legs of every mode.
WalkTimeSecAllLegs(itinerary, ls) ==
    IF getn(itinerary.walkTime) = None
    THEN SumSeq([i \in DOMAIN ls |-> OrZero(getn(ls[i].duration))])
    ELSE getn(itinerary.walkTime)[2]

\* walk_time_sec: itinerary.walkTime when it is there, else the durations of
\* the legs whose mode is WALK
WalkTimeSec(itinerary, ls) ==
    IF getn(itinerary.walkTime) = None
    THEN SumSeq([i \in DOMAIN ls |->
                    IF getn(ls[i].mode) = Some("WALK")
                    THEN OrZero(getn(ls[i].duration)) ELSE 0])
    ELSE getn(itinerary.walkTime)[2]

\* AsyncOTPClient._parse_itinerary: the set of its possible results, each
\* Ok(OTPItinerary) or Raise.  total_distance_km is in hundredths of a
\* kilometre.
parse_itinerary(itinerary) ==
    LET legs == get(itinerary.legs, Some(<< >>))
    IN  IF legs = None THEN {Raise}
        ELSE
        LET ls == legs[2]
            total_duration_min == RoundHalfEven(OrZero(getn(itinerary.duration)), 60)
            total_distance_m ==
                SumSeq([i \in DOMAIN ls |-> OrZero(getn(ls[i].distance))])
            walk_time_sec == WalkTimeSec(itinerary, ls)
            total_walking_time_min == RoundHalfEven(walk_time_sec, 60)
            transfers == Transfers(ls)
        IN  IF \E i \in DOMAIN ls :
                  PlaceName(ls[i].from) = Raise \/ PlaceName(ls[i].to) = Raise
            THEN {Raise}
            ELSE {Ok([total_duration_min     |-> total_duration_min,
                      total_distance_km      |-> km,
                      total_walking_time_min |-> total_walking_time_min,
                      transfers              |-> transfers,
                      legs                   |-> [i \in DOMAIN ls |-> ParseLeg(ls[i])]])
                  : km \in Round2(total_distance_m)}

----------------------------------------------------------------------------
(* _parse_itinerary on a bounded set of raw itineraries *)

MaxLegs == 4
MaxSeconds == 150

\* Place names and route texts of the raw itineraries
TextA == <<65>>                          \* "A"
TextB == <<66>>                          \* "B"
TextRoute == <<82>>                      \* "R"
TextShort == <<55>>                      \* "7"
TextLong == <<76, 105, 110, 101, 32, 55>>  \* "Line 7"

\* A raw leg from A to B without route fields
RawLeg(mode, transitLeg, duration, distance) ==
    [mode |-> mode, transitLeg |-> transitLeg,
     duration |-> duration, distance |-> distance,
     from |-> Some(Some(TextA)), to |-> Some(Some(TextB)),
     route |-> Absent, routeShortName |-> Absent, routeLongName |-> Absent,
     headsign |-> Absent, agencyName |-> Absent, routeType |-> Absent]

RawItinerary(duration, walkTime, legs) ==
    [duration |-> duration, walkTime |-> walkTime, legs |-> legs]

\* The kinds of leg by mode and transit flag: a walk, the five transit modes
\* and a cable car without the flag; a walk flagged as transit; a leg
\* without a mode.
LegKinds ==
    {RawLeg(Some(m), Absent, Some(600), Some(1000)) :
        m \in {"WALK", "CABLE_CAR"} \cup TransitModes}
    \cup {RawLeg(Some("WALK"), Some(TRUE), Some(600), Some(1000)),
          RawLeg(Absent, Absent, Some(600), Some(1000))}

RECURSIVE LegLists(_)
LegLists(n) ==
    IF n = 0 THEN {<< >>}
    ELSE LET shorter == LegLists(n - 1)
         IN  shorter \cup {Append(ls, leg) : ls \in shorter, leg \in LegKinds}

ModeItineraries ==
    {RawItinerary(Some(1800), Absent, Some(ls)) : ls \in LegLists(MaxLegs)}

\* One walk of s seconds, for every s up to MaxSeconds
DurationItineraries ==
    {RawItinerary(Some(s), Absent,
                  Some(<<RawLeg(Some("WALK"), Absent, Some(s), Some(100))>>)) :
        s \in 0..MaxSeconds}

\* The fixture: 1800 s; WALK 300 s / 400 m, then BUS 1500 s / 5000 m; no
\* walkTime.  The flags and the route fields vary.
FixtureItineraries ==
    {RawItinerary(Some(1800), Absent,
        Some(<<RawLeg(Some("WALK"), wf, Some(300), Some(400)),
               [RawLeg(Some("BUS"), bf, Some(1500), Some(5000))
                   EXCEPT !.routeShortName = short, !.headsign = head]>>)) :
        wf \in {Absent, Some(FALSE)}, bf \in {Absent, Some(TRUE)},
        short \in {Absent, Some(TextShort)}, head \in {Absent, None, Some(TextB)}}

RouteValues(text) == {Absent, None, Some(<< >>), Some(text)}

\* One bus leg with every combination of the three route fields
RouteItineraries ==
    {RawItinerary(Some(600), Absent,
        Some(<<[RawLeg(Some("BUS"), Absent, Some(600), Some(1000))
                   EXCEPT !.route = r, !.routeShortName = sh, !.routeLongName = lg]>>)) :
        r \in RouteValues(TextRoute), sh \in RouteValues(TextShort),
        lg \in RouteValues(TextLong)}

\* Itineraries with a walkTime, with other transit flags (buses flagged as
\* not transit, cable cars flagged as transit), with missing or null fields,
\* with a distance that ends in 5 metres, and malformed ones (null legs, a
\* null place)
OtherItineraries ==
    {RawItinerary(Some(1800), Absent,
        Some(<<RawLeg(Some(m), f, Some(600), Some(1000)),
               RawLeg(Some("WALK"), Some(FALSE), Some(600), Some(1000)),
               RawLeg(Some(m), f, Some(600), Some(1000))>>)) :
        m \in {"BUS", "CABLE_CAR"}, f \in {None, Some(FALSE), Some(TRUE)}}
    \cup
    {RawItinerary(Some(1800), wt,
        Some(<<RawLeg(Some("WALK"), Absent, Some(300), Some(400)),
               RawLeg(Some("BUS"), Absent, Some(1500), Some(5000))>>)) :
        wt \in {None, Some(0), Some(290)}}
    \cup {RawItinerary(Absent, Absent, Absent),
          RawItinerary(None, None, Some(<<RawLeg(Some("WALK"), None, None, None)>>)),
          RawItinerary(Some(90), Absent,
                       Some(<<RawLeg(Some("WALK"), Absent, Some(90), Some(1255))>>)),
          RawItinerary(Some(90), Absent,
                       Some(<<[RawLeg(None, Absent, Absent, Absent)
                                  EXCEPT !.from = Absent, !.to = Some(Absent)]>>)),
          RawItinerary(Some(90), Absent,
                       Some(<<[RawLeg(Some("BUS"), Absent, Some(90), Some(10))
                                  EXCEPT !.from = Some(None)]>>)),
          RawItinerary(Some(1800), Absent, None),
          RawItinerary(Some(1800), Absent,
                       Some(<<[RawLeg(Some("BUS"), Absent, Some(90), Some(10))
                                  EXCEPT !.from = None]>>))}

ParseInputs ==
    ModeItineraries \cup DurationItineraries \cup FixtureItineraries
    \cup RouteItineraries \cup OtherItineraries

\* AsyncOTPClient holds no gazetteer: the one of the agent is left out here.
InitParse ==
    /\ stops = << >>
    /\ stop_dict = << >>
    /\ fn = "_parse_itinerary"
    /\ pc = "call"
    /\ arg \in ParseInputs
    /\ ret = None
    /\ NoQuery
    /\ NewStore

ParseItinerary ==
    /\ fn = "_parse_itinerary" /\ pc = "call"
    /\ ret' \in parse_itinerary(arg)
    /\ pc' = "done"
    /\ UNCHANGED <<waiting, store, stops, stop_dict, fn, arg, locals>>

NextParse == ParseItinerary

SpecParse == InitParse /\ [][NextParse]_vars

----------------------------------------------------------------------------
(* Claims about the normalisation of itineraries *)

ParseDone == fn = "_parse_itinerary" /\ pc = "done"

\* A raw leg of the given mode, seconds and metres, not flagged as transit
\* unless its mode is a transit mode
IsLegOf(leg, mode, seconds, metres) ==
    /\ leg.mode = Some(mode)
    /\ leg.duration = Some(seconds)
    /\ leg.distance = Some(metres)
    /\ (leg.transitLeg = Some(TRUE) => mode \in TransitModes)

\* The raw itinerary of the round-trip property
IsFixture(itinerary) ==
    /\ itinerary.duration = Some(1800)
    /\ itinerary.walkTime = Absent
    /\ itinerary.legs \notin {Absent, None}
    /\ Len(itinerary.legs[2]) = 2
    /\ IsLegOf(itinerary.legs[2][1], "WALK", 300, 400)
    /\ IsLegOf(itinerary.legs[2][2], "BUS", 1500, 5000)

\* C5: the raw itinerary of 1800 s with the legs WALK 300 s / 400 m and BUS
\* 1500 s / 5000 m and no walkTime normalises to 30 minutes, 5.40 km, 5
\* minutes of walking and 0 transfers.
C5_Fixture ==
    (ParseDone /\ IsFixture(arg)) =>
        /\ ret[1] = "Ok"
        /\ ret[2].total_duration_min = 30
        /\ ret[2].total_distance_km = 540
        /\ ret[2].total_walking_time_min = 5
        /\ ret[2].transfers = 0

\* The fixture was normalised, with its bus leg flagged as transit.
C5_Witness ==
    /\ ParseDone /\ IsFixture(arg)
    /\ arg.legs[2][2].transitLeg = Some(TRUE)
    /\ ret[1] = "Ok" /\ ret[2].total_walking_time_min = 5

\* The legs of a raw itinerary whose mode is BUS, TRAM, RAIL, SUBWAY or FERRY
\* or that are flagged as a transit leg
TransitLegCount(itinerary) ==
    Cardinality({i \in DOMAIN itinerary.legs[2] :
        \/ itinerary.legs[2][i].mode \in
              {Some("BUS"), Some("TRAM"), Some("RAIL"), Some("SUBWAY"), Some("FERRY")}
        \/ itinerary.legs[2][i].transitLeg = Some(TRUE)})

\* C6: the normalised transfer count is max(0, T - 1) for T the number of
\* legs of a transit mode or flagged as transit; it is never negative, walk
\* legs do not change it, and 3 transit legs give 2.
C6_Transfers ==
    (ParseDone /\ ret[1] = "Ok" /\ arg.legs \notin {Absent, None}) =>
        LET T == TransitLegCount(arg)
        IN  /\ ret[2].transfers = IF T >= 1 THEN T - 1 ELSE 0
            /\ ret[2].transfers >= 0
            /\ T = 3 => ret[2].transfers = 2

\* Three transit legs and a walk gave 2 transfers.
C6_Witness ==
    /\ ParseDone /\ ret[1] = "Ok" /\ arg.legs \notin {Absent, None}
    /\ TransitLegCount(arg) = 3
    /\ \E i \in DOMAIN arg.legs[2] :
          arg.legs[2][i].mode = Some("WALK") /\ arg.legs[2][i].transitLeg = Absent
    /\ ret[2].transfers = 2

----------------------------------------------------------------------------
(* Location extraction: transit_agent_final.py *)

\* The regular expressions of `patterns` use four operators besides literal
\* characters: \s+, \s*, (.+?) and (.+).  re_compile reads a pattern's source
\* text into its tokens: <<"lit", c>>, <<"ws1">>, <<"ws0">>, <<"lazy">>,
\* <<"greedy">>.
StartsWith(s, prefix) ==
    Len(s) >= Len(prefix) /\ SubSeq(s, 1, Len(prefix)) = prefix

Drop(s, n) == SubSeq(s, n + 1, Len(s))

RECURSIVE re_compile(_)
re_compile(p) ==
    IF p = << >> THEN << >>
    ELSE IF StartsWith(p, <<92, 115, 43>>)                 \* \s+
         THEN <<<<"ws1">>>> \o re_compile(Drop(p, 3))
    ELSE IF StartsWith(p, <<92, 115, 42>>)                 \* \s*
         THEN <<<<"ws0">>>> \o re_compile(Drop(p, 3))
    ELSE IF StartsWith(p, <<40, 46, 43, 63, 41>>)          \* (.+?)
         THEN <<<<"lazy">>>> \o re_compile(Drop(p, 5))
    ELSE IF StartsWith(p, <<40, 46, 43, 41>>)              \* (.+)
         THEN <<<<"greedy">>>> \o re_compile(Drop(p, 4))
    ELSE <<<<"lit", p[1]>>>> \o re_compile(Drop(p, 1))

\* len(match.groups()): the capture groups of the pattern
GroupCount(toks) ==
    Cardinality({k \in DOMAIN toks : toks[k][1] \in {"lazy", "greedy"}})

\* The characters of a class of the patterns: \s, and . which matches every
\* character but the newline
InClass(c, class) == IF class = "space" THEN isspace(c) ELSE c # 10

\* The length of the longest run of characters of a class from position i on
RunLength(s, i, class) ==
    LET bad == {j \in i..Len(s) : ~InClass(s[j], class)}
    IN  IF bad = {} THEN Len(s) - i + 1 ELSE Min(bad) - i

NoMatch == <<"NoMatch">>

\* The backtracking match of the tokens k.. at position i, with the groups
\* captured so far: the first success in the order in which re tries the
\* alternatives (a greedy operator the longest first, a lazy one the shortest
\* first), or NoMatch.  re_try runs through the lengths n, n + step, .. up to
\* last for the operator at k.  Literals compare without case
\* (re.IGNORECASE).
RECURSIVE re_match(_, _, _, _, _)
RECURSIVE re_try(_, _, _, _, _, _, _, _)
re_match(toks, k, s, i, groups) ==
    IF k > Len(toks) THEN Ok(groups)
    ELSE LET op == toks[k][1] IN
         IF op = "lit"
         THEN IF i <= Len(s) /\ LowerChar(s[i]) = LowerChar(toks[k][2])
              THEN re_match(toks, k + 1, s, i + 1, groups)
              ELSE NoMatch
         ELSE IF op = "ws1"
         THEN re_try(toks, k, s, i, groups, RunLength(s, i, "space"), -1, 1)
         ELSE IF op = "ws0"
         THEN re_try(toks, k, s, i, groups, RunLength(s, i, "space"), -1, 0)
         ELSE IF op = "lazy"
         THEN re_try(toks, k, s, i, groups, 1, 1, RunLength(s, i, "dot"))
         ELSE re_try(toks, k, s, i, groups, RunLength(s, i, "dot"), -1, 1)

re_try(toks, k, s, i, groups, n, step, last) ==
    IF (step > 0 /\ n > last) \/ (step < 0 /\ n < last) THEN NoMatch
    ELSE LET captured == IF toks[k][1] \in {"lazy", "greedy"}
                         THEN Append(groups, SubSeq(s, i, i + n - 1))
                         ELSE groups
             m == re_match(toks, k + 1, s, i + n, captured)
         IN  IF m # NoMatch THEN m
             ELSE re_try(toks, k, s, i, groups, n + step, step, last)

\* re.search(pattern, s, re.IGNORECASE) for the tokens of the pattern, from
\* position i on: the match at the leftmost position that has one; Ok(groups)
\* or NoMatch
RECURSIVE re_search_from(_, _, _)
re_search_from(toks, s, i) ==
    IF i > Len(s) + 1 THEN NoMatch
    ELSE LET m == re_match(toks, 1, s, i, << >>)
         IN  IF m # NoMatch THEN m ELSE re_search_from(toks, s, i + 1)

\* for key, value in destination_map.items(): if key in pattern: return
\* from_loc, value.  The value of the first key that occurs in the pattern's
\* source text, or None when no key does.
DestinationOf(pattern) ==
    LET ks == {k \in DOMAIN destination_map : In(destination_map[k][1], pattern)}
    IN  IF ks = {} THEN None ELSE Some(destination_map[Min(ks)][2])

\* The fuzzy fallback of extract_locations: the pairs (alias of the first
\* mention, alias of the second) it can return.  The mentions run through the
\* stops in list order and through one stop's aliases in the order of
\* list(set(...)), which the build does not fix.
location_mentions(query_lower) ==
    LET hits(i) == {alias \in stops[i].aliases : In(lower(alias), query_lower)}
        with == {i \in DOMAIN stops : hits(i) # {}}
    IN  IF with = {} THEN {<<None, None>>}
        ELSE LET i1 == Min(with) IN
             IF Cardinality(hits(i1)) >= 2
             THEN {<<Some(a), Some(b)>> : a \in hits(i1), b \in hits(i1)}
                  \ {<<Some(a), Some(a)>> : a \in hits(i1)}
             ELSE IF with = {i1} THEN {<<None, None>>}
             ELSE LET i2 == Min(with \ {i1})
                  IN  {<<Some(a), Some(b)>> : a \in hits(i1), b \in hits(i2)}

\* The loop over the patterns from number k on: the first pattern that
\* matches and returns decides; a single-capture pattern without a
\* destination returns nothing and the loop goes on.
RECURSIVE extract_from(_, _)
extract_from(query_lower, k) ==
    IF k > Len(patterns) THEN location_mentions(query_lower)
    ELSE LET toks == re_compile(patterns[k])
             m == re_search_from(toks, query_lower, 1)
         IN  IF m # NoMatch /\ GroupCount(toks) >= 2
             THEN {<<Some(strip(m[2][1])), Some(strip(m[2][2]))>>}
             ELSE IF m # NoMatch /\ GroupCount(toks) >= 1
                     /\ DestinationOf(patterns[k]) # None
             THEN {<<Some(strip(m[2][1])), DestinationOf(patterns[k])>>}
             ELSE extract_from(query_lower, k + 1)

\* A faulty extraction, which matches the patterns against the normalised
\* query in its own case.
extract_locations_cased(query) ==
    extract_from(normalize_egyptian_text(query), 1)

\* FinalTransitAgent.extract_locations: the set of pairs (from, to) it can
\* return, each component None or Some(text)
extract_locations(query) ==
    LET normalized_query == normalize_egyptian_text(query)
        query_lower == lower(normalized_query)
    IN  extract_from(query_lower, 1)

-----------------------------------------------------------------------

(* The orchestrator: process_query and what it calls *)

\* An exception that carries its message, str(e)
Raised(message) == <<"Raise", message>>

\* A number and a list among the values of a JSON object
Num(n) == <<"Num", n>>
List(items) == <<"List", items>>

\* AlexandriaGeocoder.search_stops: the positions of the stops one of whose
\* aliases contains the query or occurs in it; matches[0] is the least
search_stops(query) ==
    LET query_lower == lower(query)
    IN  {i \in DOMAIN stops : \E alias \in stops[i].aliases :
            In(query_lower, lower(alias)) \/ In(lower(alias), query_lower)}

\* type(v).__name__ for a value that is no text
TypeName(v) ==
    IF v[1] = "Num" THEN <<105, 110, 116>>
    ELSE IF v[1] = "List" THEN <<108, 105, 115, 116>>
    ELSE <<78, 111, 110, 101, 84, 121, 112, 101>>

\* FinalTransitAgent.geocode_location: the set of its possible outcomes,
\* Ok(None), Ok(<<lat, lon, name>>) or, for a name that is no text,
\* the AttributeError of location_name.lower()
geocode_location(location_name) ==
    IF location_name[1] # "Some"
    THEN {Raised(<<39>> \o TypeName(location_name)
                 \o <<39, 32, 111, 98, 106, 101, 99, 116, 32, 104, 97, 115, 32, 110, 111, 32, 97, 116, 116, 114,
          105, 98, 117, 116, 101, 32, 39, 108, 111, 119, 101, 114, 39>>)}
    ELSE LET matches == search_stops(location_name[2])
         IN  {IF result # None THEN Ok(result)
              ELSE IF matches # {} THEN Ok(Coords(stops[Min(matches)]))
              ELSE Ok(None) : result \in geocode(location_name[2])}

\* The instruction that opens the prompt of extract_locations_smart
NerInstruction ==
    <<69, 120, 116, 114, 97, 99, 116, 32, 115, 116, 97, 114, 116, 32, 97, 110, 100, 32, 100, 101,
      115, 116, 105, 110, 97, 116, 105, 111, 110, 32, 108, 111, 99, 97, 116, 105, 111, 110, 115, 32,
      102, 114, 111, 109, 32, 116, 104, 101, 32, 117, 115, 101, 114, 32, 113, 117, 101, 114, 121, 46,
      32, 82, 101, 116, 117, 114, 110, 32, 74, 83, 79, 78, 32, 111, 110, 108, 121, 32, 119, 105,
      116, 104, 32, 107, 101, 121, 115, 58, 32, 102, 114, 111, 109, 44, 32, 116, 111, 46, 32, 73,
      102, 32, 117, 110, 107, 110, 111, 119, 110, 44, 32, 115, 101, 116, 32, 116, 111, 32, 110, 117,
      108, 108, 46, 10, 10, 81, 117, 101, 114, 121, 58, 32>>

\* A faulty prompt, which hands over the normalised query.
NerPromptNormalized(query) == NerInstruction \o normalize_egyptian_text(query)

\* The prompt of extract_locations_smart for a query
NerPrompt(query) == NerInstruction \o query

\* FinalTransitAgent.extract_locations_smart, by the reply of the language
\* model: <<"raise">> when the call raises, <<"no_object">> for a text without
\* a braced block, <<"malformed">> for a braced block that json.loads
\* rejects, <<"object", data>> for a JSON object
extract_locations_smart(reply) ==
    IF reply[1] = "object"
    THEN <<getn(reply[2].from), getn(reply[2].to)>>
    ELSE <<None, None>>

\* A faulty status check, which takes every status of the success class for a
\* running Planner.
check_status_success_class(reply) ==
    IF reply[1] = "session_error" THEN Raise
    ELSE IF reply[1] = "exception" THEN Ok(FALSE)
    ELSE Ok(reply[2] \in 200..299)

\* A faulty status check, which takes every HTTP response for a running
\* Planner.
check_status_any_response(reply) ==
    IF reply[1] = "session_error" THEN Raise
    ELSE Ok(reply[1] = "response")

\* AsyncOTPClient.check_status, by the reply to the status request:
\* <<"session_error">> when the session cannot be opened or closed,
\* <<"exception">> when the request fails, <<"response", status>>
check_status(reply) ==
    IF reply[1] = "session_error" THEN Raise
    ELSE IF reply[1] = "exception" THEN Ok(FALSE)
    ELSE Ok(reply[2] = 200)

\* str(n) for a whole number n >= 0
RECURSIVE Digits(_)
Digits(n) ==
    IF n < 10 THEN <<48 + n>> ELSE Append(Digits(n \div 10), 48 + (n % 10))

\* format(x, ".kf") for x >= 0 given as a whole number u of units 10^-k
Fixed(u, k) ==
    Digits(u \div 10^k) \o <<46>> \o [i \in 1..k |-> 48 + ((u \div 10^(k - i)) % 10)]

\* A faulty failure, which carries no error text.
FailureWithoutText(error) == [success |-> FALSE, error |-> << >>, itineraries |-> << >>]

\* A failure of plan_trip
Failure(error) == [success |-> FALSE, error |-> error, itineraries |-> << >>]

\* An error payload that is a JSON object: its message and its str()
ErrorObject(message, text) == <<"Dict", message, text>>

\* AsyncOTPClient.plan_trip, by the reply to the plan request: the set of its
\* possible outcomes, each Ok(result) or Raise.  The reply is
\* <<"session_error">> when the session cannot be opened,
\* <<"client_error", text>> for an aiohttp.ClientError,
\* <<"exception", text>> for another exception of the request or of the
\* decoding, or <<"response", status, data>> with data the decoded body:
\* None, or Some([error |-> .., plan |-> ..]).
plan_trip(reply) ==
    IF reply[1] = "session_error" THEN {Raise}
    ELSE IF reply[1] = "client_error"
    THEN {Ok(Failure(<<78, 101, 116, 119, 111, 114, 107, 32, 101, 114, 114, 111, 114, 58, 32>> \o reply[2]))}
    ELSE IF reply[1] = "exception"
    THEN {Ok(Failure(<<85, 110, 101, 120, 112, 101, 99, 116, 101, 100, 32, 101, 114, 114, 111, 114, 58, 32>> \o reply[2]))}
    ELSE
    LET status == reply[2]
        data == reply[3]
        unexpected(text) == {Ok(Failure(<<85, 110, 101, 120, 112, 101, 99, 116, 101, 100, 32, 101, 114, 114, 111, 114, 58, 32>> \o text))}
    IN  IF status # 200
        THEN {Ok(Failure(<<79, 84, 80, 32, 72, 84, 84, 80, 32>> \o Digits(status)))}
        ELSE IF data = None
        THEN unexpected(<<97, 114, 103, 117, 109, 101, 110, 116, 32, 111, 102, 32, 116, 121, 112, 101, 32, 39, 78, 111,
          110, 101, 84, 121, 112, 101, 39, 32, 105, 115, 32, 110, 111, 116, 32, 105, 116, 101, 114, 97,
          98, 108, 101>>)
        ELSE IF data[2].error # Absent
        THEN LET error == data[2].error
             IN  IF error = None
                 THEN unexpected(<<39, 78, 111, 110, 101, 84, 121, 112, 101, 39, 32, 111, 98, 106, 101, 99, 116, 32, 104, 97,
          115, 32, 110, 111, 32, 97, 116, 116, 114, 105, 98, 117, 116, 101, 32, 39, 103, 101, 116, 39>>)
                 ELSE IF error[1] = "Some"
                 THEN unexpected(<<39, 115, 116, 114, 39, 32, 111, 98, 106, 101, 99, 116, 32, 104, 97, 115, 32, 110, 111, 32,
          97, 116, 116, 114, 105, 98, 117, 116, 101, 32, 39, 103, 101, 116, 39>>)
                 ELSE LET msg == Or(getn(error[2]), Some(error[3]))
                      IN  {Ok(Failure(Or(msg, Some(<<79, 84, 80, 32, 114, 101, 116, 117, 114, 110, 101, 100, 32, 101, 114, 114, 111, 114>>))[2]))}
        ELSE
        LET plan == getn(data[2].plan)
        IN  IF plan = None \/ (plan[2].itineraries = Absent /\ plan[2].from = Absent)
            THEN {Ok(Failure(<<78, 111, 32, 112, 108, 97, 110, 32, 105, 110, 32, 114, 101, 115, 112, 111, 110, 115, 101, 32,
          40, 110, 111, 32, 105, 116, 105, 110, 101, 114, 97, 114, 105, 101, 115, 41>>))}
            ELSE
            LET found == get(plan[2].itineraries, Some(<< >>))
                itineraries == IF found = None THEN << >> ELSE found[2]
            IN  IF itineraries = << >>
                THEN {Ok(Failure(<<78, 111, 32, 105, 116, 105, 110, 101, 114, 97, 114, 105, 101, 115, 32, 102, 111, 117, 110, 100>>))}
                ELSE
                LET parsed == {p \in [DOMAIN itineraries ->
                                         UNION {parse_itinerary(itineraries[i]) :
                                                    i \in DOMAIN itineraries}] :
                                  \A i \in DOMAIN itineraries :
                                      p[i] \in parse_itinerary(itineraries[i])}
                IN  {IF \E i \in DOMAIN p : p[i] = Raise
                     THEN Ok(Failure(<<85, 110, 101, 120, 112, 101, 99, 116, 101, 100, 32, 101, 114, 114, 111, 114, 58, 32>>))
                     ELSE Ok([success |-> TRUE, error |-> << >>,
                              itineraries |-> [i \in DOMAIN p |-> p[i][2]]]) :
                        p \in parsed}

\* list(dict.fromkeys(xs)): the first occurrences, in order
RECURSIVE fromkeys(_)
fromkeys(xs) ==
    IF xs = << >> THEN << >>
    ELSE LET init == fromkeys(SubSeq(xs, 1, Len(xs) - 1))
             last == xs[Len(xs)]
         IN  IF \E i \in DOMAIN init : init[i] = last THEN init
             ELSE Append(init, last)

\* A faulty step, which prefers the generic route field to the short
\* designation.
StepRouteFirst(leg) ==
    [mode     |-> leg.mode,
     from     |-> leg.from_name,
     to       |-> leg.to_name,
     duration |-> leg.duration_min,
     distance |-> leg.distance_km,
     route    |-> Or(Or(leg.route, leg.route_short_name), leg.route_long_name),
     headsign |-> leg.headsign]

\* One step of a Route, from a leg
Step(leg) ==
    [mode     |-> leg.mode,
     from     |-> leg.from_name,
     to       |-> leg.to_name,
     duration |-> leg.duration_min,
     distance |-> leg.distance_km,
     route    |-> Or(Or(leg.route_short_name, leg.route), leg.route_long_name),
     headsign |-> leg.headsign]

\* The Route of plan_route_with_otp for one itinerary
RouteOf(itin) ==
    LET modes == [i \in DOMAIN itin.legs |-> itin.legs[i].mode]
    IN  [duration           |-> itin.total_duration_min,
         distance           |-> itin.total_distance_km,
         steps              |-> [i \in DOMAIN itin.legs |-> Step(itin.legs[i])],
         total_walking_time |-> itin.total_walking_time_min,
         transit_modes      |->
             fromkeys(SelectSeq(modes, LAMBDA m : m # Some("WALK")))]

\* FinalTransitAgent.plan_route_with_otp from the outcome of plan_trip on:
\* None, or Some(routes)
plan_route_with_otp(outcome) ==
    IF outcome = Raise THEN None
    ELSE IF ~outcome[2].success THEN None
    ELSE Some([i \in DOMAIN outcome[2].itineraries |->
                  RouteOf(outcome[2].itineraries[i])])

\* format(x, ".1f") for a distance of h hundredths of a kilometre, and for one
\* of m metres; format(x, ".4f") for a coordinate of n units of 1e-7 degree
Format1fHundredths(h) == {Fixed(t, 1) : t \in RoundDecimal(h, 10, 25)}
Format1fMetres(m) == {Fixed(t, 1) : t \in RoundDecimal(m, 100, 125)}
Format4f(n) == {Fixed(u, 4) : u \in RoundDecimal(n, 1000, 78125)}

\* The text of a mode: the modes are the strings of the model
ModeText(mode) ==
    CASE mode = "WALK" -> <<87, 65, 76, 75>>
      [] mode = "BUS" -> <<66, 85, 83>>
      [] mode = "TRAM" -> <<84, 82, 65, 77>>
      [] mode = "RAIL" -> <<82, 65, 73, 76>>
      [] mode = "SUBWAY" -> <<83, 85, 66, 87, 65, 89>>
      [] mode = "FERRY" -> <<70, 69, 82, 82, 89>>
      [] mode = "CABLE_CAR" -> <<67, 65, 66, 76, 69, 95, 67, 65, 82>>

\* str(x) in a formatted text, for a text or None
StrOf(x) == IF x = None THEN <<78, 111, 110, 101>> ELSE x[2]

\* str(mode) in a formatted text
StrOfMode(mode) == IF mode = None THEN <<78, 111, 110, 101>> ELSE ModeText(mode[2])

\* ', '.join(route.transit_modes): a mode that is None raises a TypeError
RECURSIVE JoinModes(_, _)
JoinModes(modes, i) ==
    IF modes[i] = None
    THEN Raised(<<115, 101, 113, 117, 101, 110, 99, 101, 32, 105, 116, 101, 109, 32>> \o Digits(i - 1)
                \o <<58, 32, 101, 120, 112, 101, 99, 116, 101, 100, 32, 115, 116, 114, 32, 105, 110, 115, 116, 97,
          110, 99, 101, 44, 32, 78, 111, 110, 101, 84, 121, 112, 101, 32, 102, 111, 117, 110, 100>>)
    ELSE IF i = Len(modes) THEN Ok(ModeText(modes[i][2]))
    ELSE LET rest == JoinModes(modes, i + 1)
         IN  IF rest[1] = "Raise" THEN rest
             ELSE Ok(ModeText(modes[i][2]) \o <<44, 32>> \o rest[2])

\* The Arabic names of the modes in ar_mode
ar_mode_names(mode) ==
    CASE mode = "BUS" -> <<1571, 1578, 1608, 1576, 1610, 1587>>
      [] mode = "TRAM" -> <<1578, 1585, 1575, 1605>>
      [] mode = "RAIL" -> <<1602, 1591, 1575, 1585>>
      [] mode = "SUBWAY" -> <<1605, 1578, 1585, 1608>>
      [] mode = "FERRY" -> <<1593, 1576, 1617, 1575, 1585, 1577>>
      [] OTHER -> ModeText(mode)

\* ar_mode(step) of _format_single_route
ar_mode(step) ==
    LET route_text ==
            lower((IF Truthy(step.route) THEN step.route[2] ELSE << >>) \o <<32>>
                  \o (IF Truthy(step.headsign) THEN step.headsign[2] ELSE << >>))
    IN  IF step.mode = Some("BUS")
           /\ \E k \in DOMAIN microbus_keywords : In(microbus_keywords[k], route_text)
        THEN <<1605, 1610, 1603, 1585, 1608, 1576, 1575, 1589>>
        ELSE IF step.mode = None THEN << >>
        ELSE ar_mode_names(step.mode[2])

\* The line of step i of a route: the set of its possible texts
StepLine(step, i, lang) ==
    IF step.mode = Some("WALK")
    THEN {Digits(i)
          \o (IF lang = "ar" THEN <<46, 32, 128694, 32, 1575, 1605, 1588, 1610, 32, 1605, 1606, 32>>
              ELSE <<46, 32, 128694, 32, 87, 97, 108, 107, 32, 102, 114, 111, 109, 32>>)
          \o StrOf(step.from)
          \o (IF lang = "ar" THEN <<32, 1573, 1604, 1609, 32>>
              ELSE <<32, 116, 111, 32>>)
          \o StrOf(step.to) \o <<32, 40>> \o Digits(step.duration)
          \o (IF lang = "ar" THEN <<32, 1583, 32, 45, 32>>
              ELSE <<32, 109, 105, 110, 32, 45, 32>>)
          \o km
          \o (IF lang = "ar" THEN <<32, 1603, 1605, 41, 10>>
              ELSE <<32, 107, 109, 41, 10>>) :
             km \in Format1fMetres(step.distance)}
    ELSE IF lang = "ar"
    THEN LET route_txt == IF Truthy(step.route)
                          THEN <<32, 1582, 1591, 32>> \o step.route[2]
                          ELSE << >>
             headsign_txt == IF Truthy(step.headsign)
                             THEN <<32, 1575, 1578, 1580, 1575, 1607, 32>> \o step.headsign[2]
                             ELSE << >>
         IN  {Digits(i) \o <<46, 32, 128652, 32, 1575, 1585, 1603, 1576, 32>>
              \o ar_mode(step) \o route_txt \o headsign_txt
              \o <<32, 1605, 1606, 32>> \o StrOf(step.from)
              \o <<32, 1573, 1604, 1609, 32>> \o StrOf(step.to)
              \o <<32, 40, 1581, 1608, 1575, 1604, 1610, 32>> \o Digits(step.duration)
              \o <<32, 1583, 1602, 1610, 1602, 1577, 41, 32, 1579, 1605, 32, 1575, 1606, 1586, 1604, 32, 1593, 1606, 1583, 32>>
              \o StrOf(step.to) \o <<10>>}
    ELSE LET route_txt == IF Truthy(step.route)
                          THEN <<32>> \o step.route[2] ELSE << >>
             headsign_txt == IF Truthy(step.headsign)
                             THEN <<32, 116, 111, 119, 97, 114, 100, 32>> \o step.headsign[2]
                             ELSE << >>
         IN  {Digits(i) \o <<46, 32, 128652, 32, 84, 97, 107, 101, 32>>
              \o StrOfMode(step.mode) \o route_txt \o headsign_txt
              \o <<32, 102, 114, 111, 109, 32>> \o StrOf(step.from)
              \o <<32, 116, 111, 32>> \o StrOf(step.to)
              \o <<32, 40, 126>> \o Digits(step.duration)
              \o <<32, 109, 105, 110, 41, 44, 32, 97, 108, 105, 103, 104, 116, 32, 97, 116, 32>>
              \o StrOf(step.to) \o <<10>>}

\* The lines of the steps from step i on: the set of their possible texts
RECURSIVE StepLines(_, _, _)
StepLines(steps, i, lang) ==
    IF i > Len(steps) THEN {<< >>}
    ELSE {line \o rest : line \in StepLine(steps[i], i, lang),
                         rest \in StepLines(steps, i + 1, lang)}

\* FinalTransitAgent._format_single_route: the set of its possible outcomes,
\* Ok(text) or the TypeError of the join
format_single_route(route, lang) ==
    LET head(km) ==
            IF lang = "ar"
            THEN <<9201, 65039, 32, 1575, 1604, 1608, 1602, 1578, 32, 1575, 1604, 1603, 1604, 1610, 58, 32>> \o Digits(route.duration)
                 \o <<32, 1583, 1602, 1610, 1602, 1577, 10, 128207, 32, 1575, 1604, 1605, 1587, 1575, 1601, 1577, 58, 32>> \o km
                 \o <<32, 1603, 1605, 10, 128694, 32, 1608, 1602, 1578, 32, 1575, 1604, 1605, 1588, 1610, 58, 32>> \o Digits(route.total_walking_time)
                 \o <<32, 1583, 1602, 1610, 1602, 1577, 10>>
            ELSE <<9201, 65039, 32, 84, 111, 116, 97, 108, 58, 32>> \o Digits(route.duration)
                 \o <<32, 109, 105, 110, 10, 128207, 32, 68, 105, 115, 116, 97, 110, 99, 101, 58, 32>> \o km
                 \o <<32, 107, 109, 10, 128694, 32, 87, 97, 108, 107, 105, 110, 103, 58, 32>> \o Digits(route.total_walking_time)
                 \o <<32, 109, 105, 110, 10>>
        joined == IF route.transit_modes = << >> THEN Ok(<< >>)
                  ELSE JoinModes(route.transit_modes, 1)
        label == IF lang = "ar" THEN <<10, 1608, 1587, 1575, 1574, 1604, 32, 1575, 1604, 1606, 1602, 1604, 32, 1575, 1604, 1605, 1587, 1578, 1582, 1583, 1605, 1577, 58, 32>>
                 ELSE <<10, 84, 114, 97, 110, 115, 105, 116, 32, 109, 111, 100, 101, 115, 58, 32>>
        tail == IF route.transit_modes = << >> THEN << >> ELSE label \o joined[2]
    IN  IF joined[1] = "Raise" THEN {joined}
        ELSE {Ok(head(km) \o lines \o tail) :
                 km \in Format1fHundredths(route.distance),
                 lines \in StepLines(route.steps, 1, lang)}

\* The count of transfers in the option line of format_routes_response
OptionTransfers(route) ==
    LET riding == {i \in DOMAIN route.steps : route.steps[i].mode # Some("WALK")}
    IN  Max({0, Cardinality(riding) - 1})

\* The options of format_routes_response from option idx on: the set of the
\* possible outcomes, Ok(text) or the exception of the first route that raises
RECURSIVE format_options(_, _, _)
format_options(rs, idx, lang) ==
    IF idx > Len(rs) THEN {Ok(<< >>)}
    ELSE LET r == rs[idx]
             line == IF lang = "ar"
                     THEN <<1575, 1604, 1582, 1610, 1575, 1585, 32>> \o Digits(idx)
                          \o <<58, 32, 9201, 65039, 32>> \o Digits(r.duration)
                          \o <<32, 1583, 1602, 1610, 1602, 1577, 32, 8226, 32, 1578, 1581, 1608, 1610, 1604, 1575, 1578, 58, 32>>
                          \o Digits(OptionTransfers(r)) \o <<10>>
                     ELSE <<79, 112, 116, 105, 111, 110, 32>> \o Digits(idx)
                          \o <<58, 32, 9201, 65039, 32>> \o Digits(r.duration)
                          \o <<32, 109, 105, 110, 32, 8226, 32, 84, 114, 97, 110, 115, 102, 101, 114, 115, 58, 32>>
                          \o Digits(OptionTransfers(r)) \o <<10>>
         IN  {IF one[1] = "Raise" THEN one
              ELSE IF rest[1] = "Raise" THEN rest
              ELSE Ok(line \o one[2] \o <<10, 10>> \o rest[2]) :
                 one \in format_single_route(r, lang),
                 rest \in format_options(rs, idx + 1, lang)}

\* FinalTransitAgent.format_routes_response: the set of its possible
\* outcomes, Ok(text) or an exception
format_routes_response(rs, from_name, to_name, lang) ==
    LET header == IF lang = "ar"
                  THEN <<128652, 32, 1582, 1591, 1577, 32, 1575, 1604, 1585, 1581, 1604, 1577, 32, 1605, 1606, 32>> \o from_name
                       \o <<32, 1573, 1604, 1609, 32>> \o to_name \o <<10, 10>>
                  ELSE <<128652, 32, 84, 114, 105, 112, 32, 112, 108, 97, 110, 32, 102, 114, 111, 109, 32>> \o from_name
                       \o <<32, 116, 111, 32>> \o to_name \o <<10, 10>>
    IN  {IF out[1] = "Raise" THEN out ELSE Ok(strip(header \o out[2])) :
            out \in format_options(rs, 1, lang)}

\* The closing paragraphs of create_basic_route: the options and the tips
BasicOptions(lang) ==
    IF lang = "ar"
    THEN <<41, 10, 10, 42, 42, 1575, 1604, 1582, 1610, 1575, 1585, 1575, 1578, 32, 1575, 1604, 1605, 1578, 1575, 1581,
          1577, 58, 42, 42, 10, 49, 46, 32, 42, 42, 1571, 1578, 1608, 1576, 1610, 1587, 58, 42, 42, 32,
          1575, 1587, 1578, 1582, 1583, 1605, 32, 1588, 1576, 1603, 1577, 32, 1575, 1604, 1571, 1578, 1608, 1576, 1610, 1587,
          1575, 1578, 32, 1575, 1604, 1593, 1575, 1605, 1577, 10, 50, 46, 32, 42, 42, 1578, 1585, 1575, 1605, 58,
          42, 42, 32, 1575, 1587, 1578, 1582, 1583, 1605, 32, 1578, 1585, 1575, 1605, 32, 1575, 1604, 1573, 1587, 1603,
          1606, 1583, 1585, 1610, 1577, 32, 40, 1573, 1584, 1575, 32, 1603, 1575, 1606, 32, 1605, 1578, 1575, 1581, 1575,
          1611, 32, 1601, 1610, 32, 1575, 1604, 1605, 1606, 1591, 1602, 1577, 41, 10, 51, 46, 32, 42, 42, 1605,
          1610, 1603, 1585, 1608, 1576, 1575, 1589, 58, 42, 42, 32, 1608, 1587, 1610, 1604, 1577, 32, 1606, 1602, 1604,
          32, 1587, 1585, 1610, 1593, 1577, 32, 1608, 1605, 1585, 1606, 1577, 10, 52, 46, 32, 42, 42, 1578, 1575,
          1603, 1587, 1610, 58, 42, 42, 32, 1604, 1604, 1585, 1575, 1581, 1577, 32, 1608, 1575, 1604, 1587, 1585, 1593,
          1577, 10, 10, 128241, 32, 42, 42, 1606, 1589, 1575, 1574, 1581, 58, 42, 42, 10, 45, 32, 1575, 1587,
          1578, 1582, 1583, 1605, 32, 1578, 1591, 1576, 1610, 1602, 32, 1575, 1604, 1605, 1608, 1575, 1589, 1604, 1575, 1578,
          32, 1575, 1604, 1585, 1587, 1605, 1610, 32, 1604, 1604, 1605, 1608, 1575, 1593, 1610, 1583, 32, 1575, 1604, 1583,
          1602, 1610, 1602, 1577, 10, 45, 32, 1578, 1581, 1602, 1602, 32, 1605, 1606, 32, 1605, 1608, 1575, 1593, 1610,
          1583, 32, 1575, 1604, 1578, 1588, 1594, 1610, 1604, 32, 1602, 1576, 1604, 32, 1575, 1604, 1587, 1601, 1585, 10,
          45, 32, 1575, 1581, 1578, 1601, 1592, 32, 1576, 1582, 1610, 1575, 1585, 1575, 1578, 32, 1576, 1583, 1610, 1604,
          1577, 32, 1604, 1604, 1591, 1608, 1575, 1585, 1574, 10, 10, 9888, 65039, 32, 42, 42, 1605, 1604, 1575, 1581,
          1592, 1577, 58, 42, 42, 32, 1607, 1584, 1607, 32, 1605, 1593, 1604, 1608, 1605, 1575, 1578, 32, 1571, 1587,
          1575, 1587, 1610, 1577, 46, 32, 1604, 1578, 1601, 1575, 1589, 1610, 1604, 32, 1575, 1604, 1591, 1585, 1602, 32,
          1575, 1604, 1583, 1602, 1610, 1602, 1577, 32, 1608, 1575, 1604, 1605, 1608, 1575, 1593, 1610, 1583, 1548, 32, 1610,
          1585, 1580, 1609, 32, 1575, 1604, 1578, 1571, 1603, 1583, 32, 1605, 1606, 32, 1578, 1588, 1594, 1610, 1604, 32,
          1582, 1575, 1583, 1605, 32, 79, 84, 80, 32, 1575, 1604, 1605, 1581, 1604, 1610, 46, 10>>
    ELSE <<41, 10, 10, 42, 42, 65, 118, 97, 105, 108, 97, 98, 108, 101, 32, 79, 112, 116, 105, 111,
          110, 115, 58, 42, 42, 10, 49, 46, 32, 42, 42, 66, 117, 115, 58, 42, 42, 32, 85, 115,
          101, 32, 116, 104, 101, 32, 112, 117, 98, 108, 105, 99, 32, 98, 117, 115, 32, 110, 101, 116,
          119, 111, 114, 107, 10, 50, 46, 32, 42, 42, 84, 114, 97, 109, 58, 42, 42, 32, 85, 115,
          101, 32, 65, 108, 101, 120, 97, 110, 100, 114, 105, 97, 32, 116, 114, 97, 109, 32, 115, 121,
          115, 116, 101, 109, 32, 40, 105, 102, 32, 97, 118, 97, 105, 108, 97, 98, 108, 101, 32, 105,
          110, 32, 116, 104, 101, 32, 97, 114, 101, 97, 41, 10, 51, 46, 32, 42, 42, 77, 105, 99,
          114, 111, 98, 117, 115, 58, 42, 42, 32, 70, 97, 115, 116, 32, 97, 110, 100, 32, 102, 108,
          101, 120, 105, 98, 108, 101, 32, 116, 114, 97, 110, 115, 112, 111, 114, 116, 32, 111, 112, 116,
          105, 111, 110, 10, 52, 46, 32, 42, 42, 84, 97, 120, 105, 58, 42, 42, 32, 70, 111, 114,
          32, 99, 111, 109, 102, 111, 114, 116, 32, 97, 110, 100, 32, 115, 112, 101, 101, 100, 10, 10,
          128241, 32, 42, 42, 84, 105, 112, 115, 58, 42, 42, 10, 45, 32, 85, 115, 101, 32, 116, 104,
          101, 32, 111, 102, 102, 105, 99, 105, 97, 108, 32, 116, 114, 97, 110, 115, 112, 111, 114, 116,
          32, 97, 112, 112, 32, 102, 111, 114, 32, 97, 99, 99, 117, 114, 97, 116, 101, 32, 115, 99,
          104, 101, 100, 117, 108, 101, 115, 10, 45, 32, 67, 104, 101, 99, 107, 32, 111, 112, 101, 114,
          97, 116, 105, 110, 103, 32, 104, 111, 117, 114, 115, 32, 98, 101, 102, 111, 114, 101, 32, 116,
          114, 97, 118, 101, 108, 105, 110, 103, 10, 45, 32, 75, 101, 101, 112, 32, 98, 97, 99, 107,
          117, 112, 32, 111, 112, 116, 105, 111, 110, 115, 32, 102, 111, 114, 32, 101, 109, 101, 114, 103,
          101, 110, 99, 105, 101, 115, 10, 10, 9888, 65039, 32, 42, 42, 78, 111, 116, 101, 58, 42, 42,
          32, 84, 104, 105, 115, 32, 105, 115, 32, 98, 97, 115, 105, 99, 32, 105, 110, 102, 111, 114,
          109, 97, 116, 105, 111, 110, 46, 32, 70, 111, 114, 32, 100, 101, 116, 97, 105, 108, 101, 100,
          32, 114, 111, 117, 116, 101, 115, 32, 97, 110, 100, 32, 115, 99, 104, 101, 100, 117, 108, 101,
          115, 44, 32, 112, 108, 101, 97, 115, 101, 32, 101, 110, 115, 117, 114, 101, 32, 121, 111, 117,
          114, 32, 108, 111, 99, 97, 108, 32, 79, 84, 80, 32, 115, 101, 114, 118, 101, 114, 32, 105,
          115, 32, 114, 117, 110, 110, 105, 110, 103, 46, 10>>

\* FinalTransitAgent.create_basic_route: the set of its possible texts
create_basic_route(fc, tc, lang) ==
    LET open == IF lang = "ar" THEN <<10, 128652, 32, 42, 42, 1582, 1591, 1577, 32, 1575, 1604, 1585, 1581, 1604, 1577, 32, 1605, 1606, 32>>
                ELSE <<10, 128652, 32, 42, 42, 84, 114, 105, 112, 32, 80, 108, 97, 110, 32, 102, 114, 111, 109, 32>>
        to == IF lang = "ar" THEN <<32, 1573, 1604, 1609, 32>>
              ELSE <<32, 116, 111, 32>>
        from_label == IF lang = "ar" THEN <<42, 42, 10, 10, 128205, 32, 42, 42, 1605, 1606, 58, 42, 42, 32>>
                      ELSE <<42, 42, 10, 10, 128205, 32, 42, 42, 70, 114, 111, 109, 58, 42, 42, 32>>
        to_label == IF lang = "ar" THEN <<41, 10, 128205, 32, 42, 42, 1573, 1604, 1609, 58, 42, 42, 32>>
                    ELSE <<41, 10, 128205, 32, 42, 42, 84, 111, 58, 42, 42, 32>>
    IN  {open \o fc[3] \o to \o tc[3]
         \o from_label \o fc[3] \o <<32, 40>> \o flat \o <<44, 32>> \o flon
         \o to_label \o tc[3] \o <<32, 40>> \o tlat \o <<44, 32>> \o tlon
         \o BasicOptions(lang) :
            flat \in Format4f(fc[1]), flon \in Format4f(fc[2]),
            tlat \in Format4f(tc[1]), tlon \in Format4f(tc[2])}

\* The prompt of process_query for a missing origin or destination
please_specify(lang) ==
    IF lang = "ar"
    THEN <<1605, 1606, 32, 1601, 1590, 1604, 1603, 32, 1581, 1583, 1583, 32, 1606, 1602, 1591, 1577, 32, 1575, 1604, 1576,
          1583, 1575, 1610, 1577, 32, 1608, 1575, 1604, 1608, 1580, 1607, 1577, 32, 1576, 1608, 1590, 1608, 1581, 46, 32,
          1605, 1579, 1575, 1604, 58, 32, 39, 1593, 1575, 1610, 1586, 32, 1571, 1585, 1608, 1581, 32, 1605, 1606, 32,
          1575, 1604, 1601, 1604, 1603, 1610, 32, 1604, 1587, 1610, 1583, 1610, 32, 1580, 1575, 1576, 1585, 39, 32, 1571,
          1608, 32, 39, 1605, 1606, 32, 1601, 1610, 1603, 1578, 1608, 1585, 1610, 1575, 32, 1573, 1604, 1609, 32, 1575,
          1604, 1605, 1606, 1578, 1586, 1607, 39>>
    ELSE <<80, 108, 101, 97, 115, 101, 32, 115, 112, 101, 99, 105, 102, 121, 32, 98, 111, 116, 104, 32,
          115, 116, 97, 114, 116, 105, 110, 103, 32, 112, 111, 105, 110, 116, 32, 97, 110, 100, 32, 100,
          101, 115, 116, 105, 110, 97, 116, 105, 111, 110, 32, 99, 108, 101, 97, 114, 108, 121, 46, 32,
          69, 120, 97, 109, 112, 108, 101, 58, 32, 39, 73, 32, 119, 97, 110, 116, 32, 116, 111, 32,
          103, 111, 32, 102, 114, 111, 109, 32, 70, 97, 108, 97, 107, 105, 32, 116, 111, 32, 83, 105,
          100, 105, 32, 71, 97, 98, 101, 114, 39, 32, 111, 114, 32, 39, 102, 114, 111, 109, 32, 86,
          105, 99, 116, 111, 114, 105, 97, 32, 116, 111, 32, 77, 111, 110, 116, 97, 122, 97, 104, 39>>

\* A faulty message, which is in English whatever the language.
not_found_english(location, lang) ==
    <<83, 111, 114, 114, 121, 44, 32, 73, 32, 99, 111, 117, 108, 100, 110, 39, 116, 32, 102, 105,
      110, 100, 32, 116, 104, 101, 32, 108, 111, 99, 97, 116, 105, 111, 110, 58, 32, 42, 42>> \o StrOf(location)
        \o <<42, 42, 46, 32, 80, 108, 101, 97, 115, 101, 32, 99, 104, 101, 99, 107, 32, 116, 104, 101,
          32, 115, 112, 101, 108, 108, 105, 110, 103, 46>>

\* The message of process_query for a location that does not geocode
not_found(location, lang) ==
    IF lang = "ar"
    THEN <<1593, 1584, 1585, 1575, 1611, 1548, 32, 1604, 1605, 32, 1571, 1578, 1605, 1603, 1606, 32, 1605, 1606, 32, 1575,
          1604, 1593, 1579, 1608, 1585, 32, 1593, 1604, 1609, 32, 1605, 1608, 1602, 1593, 58, 32, 42, 42>> \o StrOf(location)
         \o <<42, 42, 46, 32, 1578, 1571, 1603, 1583, 32, 1605, 1606, 32, 1603, 1578, 1575, 1576, 1577, 32, 1575, 1604,
          1575, 1587, 1605, 32, 1576, 1591, 1585, 1610, 1602, 1577, 32, 1589, 1581, 1610, 1581, 1577, 46>>
    ELSE <<83, 111, 114, 114, 121, 44, 32, 73, 32, 99, 111, 117, 108, 100, 110, 39, 116, 32, 102, 105,
          110, 100, 32, 116, 104, 101, 32, 108, 111, 99, 97, 116, 105, 111, 110, 58, 32, 42, 42>> \o StrOf(location)
         \o <<42, 42, 46, 32, 80, 108, 101, 97, 115, 101, 32, 99, 104, 101, 99, 107, 32, 116, 104, 101,
          32, 115, 112, 101, 108, 108, 105, 110, 103, 46>>

\* The message of the exception handler of process_query
error_message(query, message) ==
    IF detect_language(query) = "ar"
    THEN <<1593, 1584, 1585, 1575, 1611, 1548, 32, 1581, 1583, 1579, 32, 1582, 1591, 1571, 32, 1601, 1610, 32, 1605, 1593,
          1575, 1604, 1580, 1577, 32, 1591, 1604, 1576, 1603, 58, 32>> \o message
    ELSE <<83, 111, 114, 114, 121, 44, 32, 97, 110, 32, 101, 114, 114, 111, 114, 32, 111, 99, 99, 117,
          114, 114, 101, 100, 32, 119, 104, 105, 108, 101, 32, 112, 114, 111, 99, 101, 115, 115, 105, 110,
          103, 32, 121, 111, 117, 114, 32, 114, 101, 113, 117, 101, 115, 116, 58, 32>> \o message

----------------------------------------------------------------------------
(* process_query on a bounded set of queries and of replies of the
   collaborators *)

\* The number of itineraries in a reply of the Planner: up to MaxItineraries
MaxItineraries == 2

Queries ==
    {<<102, 114, 111, 109, 32, 86, 105, 99, 116, 111, 114, 105, 97, 32, 116, 111, 32, 77, 111, 110,
       116, 97, 122, 97, 104>>,
     <<102, 114, 111, 109, 32, 86, 105, 99, 116, 111, 114, 105, 97, 32, 116, 111, 32, 113, 113, 113>>,
     <<102, 114, 111, 109, 32, 120, 121, 122, 122, 121, 32, 116, 111, 32, 77, 111, 110, 116, 97, 122, 97, 104>>,
     \* from xyzzy to qqq
     <<102, 114, 111, 109, 32, 120, 121, 122, 122, 121, 32, 116, 111, 32, 113, 113, 113>>,
     <<72, 111, 119, 32, 100, 111, 32, 73, 32, 103, 111, 32, 102, 114, 111, 109, 32, 70, 97, 108,
       97, 107, 105, 32, 116, 111, 32, 77, 111, 110, 116, 97, 122, 97, 104, 63>>,
     <<119, 104, 101, 114, 101, 32, 105, 115, 32, 115, 109, 111, 117, 104, 97>>,
     <<102, 114, 111, 109, 32, 32, 32, 116, 111, 32, 98>>,
     <<104, 101, 108, 108, 111>>,
     << >>,
     \* من فيكتوريا إلى المنتزه
     <<1605, 1606, 32, 1601, 1610, 1603, 1578, 1608, 1585, 1610, 1575, 32, 1573, 1604, 1609, 32, 1575, 1604, 1605, 1606, 1578, 1586, 1607>>,
     \* من ## إلى المنتزه
     <<1605, 1606, 32, 35, 35, 32, 1573, 1604, 1609, 32, 1575, 1604, 1605, 1606, 1578, 1586, 1607>>,
     \* عايز تاكسي
     <<1593, 1575, 1610, 1586, 32, 1578, 1575, 1603, 1587, 1610>>}

\* The values of a field of the NER reply's object
NerValues ==
    {Absent, None, Some(<< >>), Some(<<86, 105, 99, 116, 111, 114, 105, 97>>), Num(0), Num(7), List(<<7>>)}

NerReplies ==
    {<<"raise">>, <<"no_object">>, <<"malformed">>}
    \cup {<<"object", [from |-> f, to |-> t]>> : f \in NerValues, t \in NerValues}

StatusReplies ==
    {<<"session_error">>, <<"exception">>, <<"response", 200>>, <<"response", 503>>}

\* The fixture with a bus of line 7 toward B, one walk of 1255 m, and a leg
\* without a mode
PlanItineraries ==
    <<RawItinerary(Some(1800), Absent,
          Some(<<RawLeg(Some("WALK"), Absent, Some(300), Some(400)),
                 [RawLeg(Some("BUS"), Absent, Some(1500), Some(5000))
                     EXCEPT !.routeShortName = Some(TextShort),
                            !.headsign = Some(TextB)]>>)),
      RawItinerary(Some(90), Absent,
          Some(<<RawLeg(Some("WALK"), Absent, Some(90), Some(1255))>>)),
      RawItinerary(Some(600), Absent,
          Some(<<RawLeg(None, Absent, Some(600), Some(1000))>>)),
      RawItinerary(Some(1800), Absent, None)>>

RECURSIVE ItineraryLists(_)
ItineraryLists(n) ==
    IF n = 0 THEN {<< >>}
    ELSE LET shorter == ItineraryLists(n - 1)
         IN  shorter \cup {Append(l, PlanItineraries[k]) :
                              l \in shorter, k \in DOMAIN PlanItineraries}

PlanData(error, plan) == Some([error |-> error, plan |-> plan])
Plan(itineraries) == Some([itineraries |-> itineraries, from |-> Some(TextA)])

PlanReplies ==
    {<<"session_error">>,
     <<"client_error", <<116, 105, 109, 101, 111, 117, 116>>>>,
     <<"exception", <<98, 97, 100, 32, 98, 111, 100, 121>>>>,
     <<"response", 500, None>>,
     <<"response", 200, None>>,
     <<"response", 200, PlanData(None, Absent)>>,
     <<"response", 200, PlanData(Some(<<100, 111, 119, 110>>), Absent)>>,
     <<"response", 200, PlanData(ErrorObject(Some(<<110, 111, 32, 112, 97, 116, 104>>), <<123, 125>>), Absent)>>,
     <<"response", 200, PlanData(ErrorObject(Absent, << >>), Absent)>>,
     <<"response", 200, PlanData(Absent, Absent)>>,
     <<"response", 200, PlanData(Absent, None)>>,
     <<"response", 200,
       PlanData(Absent, Some([itineraries |-> Absent, from |-> Absent]))>>,
     <<"response", 200, PlanData(Absent, Plan(Absent))>>,
     <<"response", 200, PlanData(Absent, Plan(None))>>}
    \cup {<<"response", 200, PlanData(Absent, Plan(Some(l)))>> :
             l \in ItineraryLists(MaxItineraries)}

\* process_query returns a text
Return(text) == ret' = text /\ pc' = "done"

\* A faulty handler, which lets the exception out of process_query.
ExceptPropagates(exception) == ret' = exception /\ pc' = "raised"

\* process_query catches an exception and returns its message
Except(exception) == Return(error_message(arg, exception[2]))

Init ==
    /\ InitGazetteer
    /\ fn = "process_query"
    /\ pc = "start"
    /\ arg \in Queries
    /\ ret = None
    /\ NoQuery
    /\ NewStore

\* process_query up to the NER fallback: the language and the extraction
ExtractLocations ==
    /\ fn = "process_query" /\ pc = "start"
    /\ language' = detect_language(arg)
    /\ \E pair \in extract_locations(arg) :
          /\ from_location' = pair[1]
          /\ to_location' = pair[2]
          /\ pc' = IF ~Truthy(pair[1]) \/ ~Truthy(pair[2]) THEN "ner" ELSE "geocode"
    /\ UNCHANGED <<waiting, store, stops, stop_dict, fn, arg, ret, from_coords, to_coords, routes, calls>>

\* The NER fallback and the test that follows it
NerFallback ==
    /\ fn = "process_query" /\ pc = "ner"
    /\ \E reply \in NerReplies :
          LET smart == extract_locations_smart(reply)
              from == Or(from_location, smart[1])
              to == Or(to_location, smart[2])
          IN  /\ calls' = Append(calls, <<"generate_content", NerPrompt(arg), reply>>)
              /\ from_location' = from
              /\ to_location' = to
              /\ IF ~Truthy(from) \/ ~Truthy(to)
                 THEN Return(please_specify(language))
                 ELSE pc' = "geocode" /\ ret' = ret
    /\ UNCHANGED <<waiting, store, stops, stop_dict, fn, arg, language, from_coords, to_coords, routes>>

\* A faulty geocoding step, which records the text of the origin in the alias
\* index, as an alias of the first stop of the list.
GeocodeLocationsCached ==
    /\ fn = "process_query" /\ pc = "geocode"
    /\ \E f \in geocode_location(from_location) :
          IF f[1] = "Raise"
          THEN /\ calls' = Append(calls, <<"geocode", from_location>>)
               /\ Except(f)
               /\ UNCHANGED <<from_coords, to_coords, stop_dict>>
          ELSE \E t \in geocode_location(to_location) :
                  /\ calls' = calls \o <<<<"geocode", from_location>>,
                                         <<"geocode", to_location>>>>
                  /\ stop_dict' = dict_store(stop_dict,
                                      [k \in {lower(from_location[2])} |->
                                          [stop |-> 1, pos |-> Len(stops) + 1]])
                  /\ from_coords' = f[2]
                  /\ IF t[1] = "Raise"
                     THEN Except(t) /\ UNCHANGED to_coords
                     ELSE /\ to_coords' = t[2]
                          /\ IF f[2] = None
                             THEN Return(not_found(from_location, language))
                             ELSE IF t[2] = None
                             THEN Return(not_found(to_location, language))
                             ELSE pc' = "status" /\ ret' = ret
    /\ UNCHANGED <<waiting, store, stops, fn, arg, language, from_location, to_location, routes>>

\* A faulty geocoding step, which tests the origin only before it goes on to
\* the Planner.
GeocodeLocationsOriginOnly ==
    /\ fn = "process_query" /\ pc = "geocode"
    /\ \E f \in geocode_location(from_location) :
          IF f[1] = "Raise"
          THEN /\ calls' = Append(calls, <<"geocode", from_location>>)
               /\ Except(f)
               /\ UNCHANGED <<from_coords, to_coords>>
          ELSE \E t \in geocode_location(to_location) :
                  /\ calls' = calls \o <<<<"geocode", from_location>>,
                                         <<"geocode", to_location>>>>
                  /\ from_coords' = f[2]
                  /\ IF t[1] = "Raise"
                     THEN Except(t) /\ UNCHANGED to_coords
                     ELSE /\ to_coords' = t[2]
                          /\ IF f[2] = None
                             THEN Return(not_found(from_location, language))
                             ELSE pc' = "status" /\ ret' = ret
    /\ UNCHANGED <<waiting, store, stops, stop_dict, fn, arg, language, from_location, to_location, routes>>

\* The two geocoding calls and the tests that follow them
GeocodeLocations ==
    /\ fn = "process_query" /\ pc = "geocode"
    /\ \E f \in geocode_location(from_location) :
          IF f[1] = "Raise"
          THEN /\ calls' = Append(calls, <<"geocode", from_location>>)
               /\ Except(f)
               /\ UNCHANGED <<from_coords, to_coords>>
          ELSE \E t \in geocode_location(to_location) :
                  /\ calls' = calls \o <<<<"geocode", from_location>>,
                                         <<"geocode", to_location>>>>
                  /\ from_coords' = f[2]
                  /\ IF t[1] = "Raise"
                     THEN Except(t) /\ UNCHANGED to_coords
                     ELSE /\ to_coords' = t[2]
                          /\ IF f[2] = None
                             THEN Return(not_found(from_location, language))
                             ELSE IF t[2] = None
                             THEN Return(not_found(to_location, language))
                             ELSE pc' = "status" /\ ret' = ret
    /\ UNCHANGED <<waiting, store, stops, stop_dict, fn, arg, language, from_location, to_location, routes>>

\* A faulty step, which goes on to the plan request whatever the status
\* check says.
CheckStatusIgnored ==
    /\ fn = "process_query" /\ pc = "status"
    /\ \E reply \in StatusReplies :
          calls' = Append(calls, <<"check_status", reply>>)
    /\ pc' = "plan"
    /\ UNCHANGED <<waiting, store, stops, stop_dict, fn, arg, ret, language, from_location,
                   to_location, from_coords, to_coords, routes>>

\* plan_route_with_otp up to the plan request: the status check.  Without a
\* running Planner there are no routes and process_query returns the basic
\* route.
CheckStatus ==
    /\ fn = "process_query" /\ pc = "status"
    /\ \E reply \in StatusReplies :
          /\ calls' = Append(calls, <<"check_status", reply>>)
          /\ IF check_status(reply) = Ok(TRUE)
             THEN pc' = "plan" /\ ret' = ret
             ELSE \E text \in create_basic_route(from_coords, to_coords, language) :
                     Return(text)
    /\ UNCHANGED <<waiting, store, stops, stop_dict, fn, arg, language, from_location, to_location,
                   from_coords, to_coords, routes>>

\* The plan request, the routes of its itineraries and the response
PlanTrip ==
    /\ fn = "process_query" /\ pc = "plan"
    /\ \E reply \in PlanReplies : \E outcome \in plan_trip(reply) :
          /\ calls' = Append(calls, <<"plan_trip", from_coords[1], from_coords[2],
                                      to_coords[1], to_coords[2], 3, reply>>)
          /\ routes' = plan_route_with_otp(outcome)
          /\ IF routes' # None /\ Len(routes'[2]) > 0
             THEN \E out \in format_routes_response(routes'[2], from_coords[3],
                                                    to_coords[3], language) :
                     IF out[1] = "Raise" THEN Except(out) ELSE Return(out[2])
             ELSE \E text \in create_basic_route(from_coords, to_coords, language) :
                     Return(text)
    /\ UNCHANGED <<waiting, store, stops, stop_dict, fn, arg, language, from_location, to_location,
                   from_coords, to_coords>>

Next ==
    \/ ExtractLocations
    \/ NerFallback
    \/ GeocodeLocations
    \/ CheckStatus
    \/ PlanTrip

Spec == Init /\ [][Next]_vars

----------------------------------------------------------------------------
(* Claims on process_query *)

QueryDone == fn = "process_query" /\ pc = "done"

VictoriaToMontazah == <<102, 114, 111, 109, 32, 86, 105, 99, 116, 111, 114, 105, 97, 32, 116, 111, 32, 77, 111, 110,
          116, 97, 122, 97, 104>>

\* A geocoding result that is the coordinates and the name of a stop
IsStop(coords) == \E i \in DOMAIN stops : coords = Coords(stops[i])

\* A digit followed by " min"
HasMinutes(text) ==
    \E i \in 1..(Len(text) - 4) :
        text[i] \in 48..57 /\ SubSeq(text, i + 1, i + 4) = <<32, 109, 105, 110>>

\* The calls of one kind, by their positions in the log
CallsOf(kind) == {i \in DOMAIN calls : calls[i][1] = kind}

\* The itineraries in a reply of the Planner to the plan request
ItinerariesOf(reply) ==
    IF reply[1] # "response" THEN << >>
    ELSE IF reply[2] # 200 \/ reply[3] = None THEN << >>
    ELSE IF reply[3][2].error # Absent \/ getn(reply[3][2].plan) = None THEN << >>
    ELSE LET found == get(reply[3][2].plan[2].itineraries, Some(<< >>))
         IN  IF found = None THEN << >> ELSE found[2]

\* An itinerary as the Planner's interface describes it: a list of legs, each
\* with a mode and with its two places
WellFormed(itinerary) ==
    /\ getn(itinerary.legs) # None
    /\ \A k \in DOMAIN itinerary.legs[2] :
          LET leg == itinerary.legs[2][k]
          IN  getn(leg.mode) # None /\ getn(leg.from) # None /\ getn(leg.to) # None

\* The Planner was asked for a plan and returned at least one itinerary
PlannerReturnedItineraries ==
    \E i \in CallsOf("plan_trip") : ItinerariesOf(calls[i][7]) # << >>

\* ... and every itinerary it returned is well-formed
PlannerReturnedWellFormed ==
    \E i \in CallsOf("plan_trip") :
        LET its == ItinerariesOf(calls[i][7])
        IN  its # << >> /\ \A k \in DOMAIN its : WellFormed(its[k])

NamesAndMinutes(text) ==
    /\ In(<<86, 105, 99, 116, 111, 114, 105, 97>>, text)
    /\ In(<<77, 111, 110, 116, 97, 122, 97, 104>>, text)
    /\ HasMinutes(text)

\* C7 as stated: for the query "from Victoria to Montazah", extract_locations
\* yields the pair ("Victoria", "Montazah"), geocoding resolves both texts to
\* a Stop, and when the Planner returns at least one itinerary the English
\* response contains "Victoria", "Montazah" and a numeric duration followed
\* by "min".
C7_VictoriaToMontazah ==
    (fn = "process_query" /\ arg = VictoriaToMontazah /\ pc # "start") =>
        /\ from_location = Some(<<86, 105, 99, 116, 111, 114, 105, 97>>)
        /\ to_location = Some(<<77, 111, 110, 116, 97, 122, 97, 104>>)
        /\ pc \in {"status", "plan", "done"} =>
               IsStop(from_coords) /\ IsStop(to_coords)
        /\ (pc = "done" /\ PlannerReturnedItineraries) => NamesAndMinutes(ret)

\* C7, amended: for the query "from Victoria to Montazah", extract_locations
\* yields the pair ("victoria", "montazah"), the two captured groups of the
\* lowercased query, trimmed; geocoding resolves both texts to a Stop; and
\* when the Planner returns at least one itinerary, every one of them
\* well-formed, the response is in English and contains "Victoria",
\* "Montazah" and a numeric duration followed by "min".
C7_VictoriaToMontazahAmended ==
    (fn = "process_query" /\ arg = VictoriaToMontazah /\ pc # "start") =>
        /\ from_location = Some(<<118, 105, 99, 116, 111, 114, 105, 97>>)
        /\ to_location = Some(<<109, 111, 110, 116, 97, 122, 97, 104>>)
        /\ pc \in {"status", "plan", "done"} =>
               IsStop(from_coords) /\ IsStop(to_coords)
        /\ (pc = "done" /\ PlannerReturnedWellFormed) =>
               language = "en" /\ NamesAndMinutes(ret)

\* The query "from Victoria to Montazah" was answered with the itineraries of
\* the Planner: the stops are Victoria Station and Tamween Montazah and the
\* first option takes 30 min.
C7_Witness ==
    /\ QueryDone /\ arg = VictoriaToMontazah
    /\ PlannerReturnedWellFormed
    /\ from_location = Some(<<118, 105, 99, 116, 111, 114, 105, 97>>) /\ to_location = Some(<<109, 111, 110, 116, 97, 122, 97, 104>>)
    /\ from_coords[3] = <<86, 105, 99, 116, 111, 114, 105, 97, 32, 83, 116, 97, 116, 105, 111, 110>>
    /\ to_coords[3] = <<84, 97, 109, 119, 101, 101, 110, 32, 77, 111, 110, 116, 97, 122, 97, 104>>
    /\ In(<<79, 112, 116, 105, 111, 110, 32, 49, 58, 32>>, ret) /\ In(<<32, 51, 48, 32, 109, 105, 110>>, ret)

\* The status check reported that the Planner is not running.
ReportedOffline ==
    \E i \in CallsOf("check_status") : calls[i][2] # <<"response", 200>>

\* A reply to the plan request that yields no usable itinerary: a failure of
\* the session or of the request, a status other than 200, a body that is
\* null, an error payload, no plan, no itinerary, or an itinerary whose
\* normalisation raises
NoUsableItinerary(reply) ==
    \/ ItinerariesOf(reply) = << >>
    \/ \E k \in DOMAIN ItinerariesOf(reply) :
          Raise \in parse_itinerary(ItinerariesOf(reply)[k])

PlannerFailed ==
    \/ ReportedOffline
    \/ \E i \in CallsOf("plan_trip") : NoUsableItinerary(calls[i][7])

\* The four generic categories of the basic-options message
ListsCategories(text, lang) ==
    IF lang = "ar"
    THEN /\ In(<<1571, 1578, 1608, 1576, 1610, 1587>>, text) /\ In(<<1578, 1585, 1575, 1605>>, text)
         /\ In(<<1605, 1610, 1603, 1585, 1608, 1576, 1575, 1589>>, text) /\ In(<<1578, 1575, 1603, 1587, 1610>>, text)
    ELSE /\ In(<<66, 117, 115>>, text) /\ In(<<84, 114, 97, 109>>, text)
         /\ In(<<77, 105, 99, 114, 111, 98, 117, 115>>, text) /\ In(<<84, 97, 120, 105>>, text)

\* The message of the exception handler, in either language
IsErrorMessage(text) ==
    \/ StartsWith(text, <<1593, 1584, 1585, 1575, 1611, 1548, 32, 1581, 1583, 1579, 32, 1582, 1591, 1571, 32, 1601, 1610, 32, 1605, 1593,
          1575, 1604, 1580, 1577, 32, 1591, 1604, 1576, 1603, 58, 32>>)
    \/ StartsWith(text, <<83, 111, 114, 114, 121, 44, 32, 97, 110, 32, 101, 114, 114, 111, 114, 32, 111, 99, 99, 117,
          114, 114, 101, 100, 32, 119, 104, 105, 108, 101, 32, 112, 114, 111, 99, 101, 115, 115, 105, 110,
          103, 32, 121, 111, 117, 114, 32, 114, 101, 113, 117, 101, 115, 116, 58, 32>>)

\* C8: for every query whose origin and destination both geocode, whenever
\* the Planner yields no usable itinerary (the status check reports offline,
\* a status other than 200, an error payload, a missing plan, an empty list
\* of itineraries, a network failure or any exception while planning),
\* process_query returns the basic-options message, which lists bus, tram,
\* microbus and taxi, in the language detected from the query, and never an
\* error message.
C8_BasicOptions ==
    (QueryDone /\ from_coords # None /\ to_coords # None /\ PlannerFailed) =>
        /\ ret \in create_basic_route(from_coords, to_coords, detect_language(arg))
        /\ ListsCategories(ret, detect_language(arg))
        /\ ~IsErrorMessage(ret)

\* An Arabic query whose two locations geocode was answered with the Arabic
\* basic options after the plan request failed on the network.
C8_Witness ==
    /\ QueryDone /\ detect_language(arg) = "ar"
    /\ from_coords # None /\ to_coords # None
    /\ \E i \in CallsOf("plan_trip") : calls[i][7][1] = "client_error"
    /\ ListsCategories(ret, "ar")

\* The origin or the destination is missing
Missing(from, to) == ~Truthy(from) \/ ~Truthy(to)

\* C9: when pattern and gazetteer extraction leave the origin or the
\* destination missing, process_query invokes the NER fallback, once and
\* before anything else, with the raw query; when the origin or the
\* destination is still missing after that, it returns the "please specify"
\* prompt in the language detected from the query and has made no geocoding
\* call, no status check and no plan request.
C9_NerFallback ==
    fn = "process_query" =>
        /\ (pc \notin {"start", "ner"}
            /\ \A pair \in extract_locations(arg) : Missing(pair[1], pair[2]))
           => /\ CallsOf("generate_content") = {1}
              /\ calls[1][2] = NerInstruction \o arg
        /\ (pc = "done" /\ Missing(from_location, to_location))
           => /\ ret = please_specify(detect_language(arg))
              /\ CallsOf("generate_content") = DOMAIN calls

\* A query that normalisation changes and that names no location went to the
\* NER fallback as it was typed; the fallback found nothing and the Arabic
\* prompt came back.
C9_Witness ==
    /\ QueryDone
    /\ normalize_egyptian_text(arg) # arg
    /\ Len(calls) = 1 /\ calls[1][1] = "generate_content"
    /\ calls[1][2] = NerInstruction \o arg
    /\ Missing(from_location, to_location)
    /\ ret = please_specify("ar")

\* How the messages of process_query open, by language
MessageOpenings(lang) ==
    IF lang = "ar"
    THEN {<<1605, 1606, 32, 1601, 1590, 1604, 1603, 32, 1581, 1583, 1583, 32, 1606, 1602, 1591, 1577, 32, 1575, 1604, 1576,
          1583, 1575, 1610, 1577, 32, 1608, 1575, 1604, 1608, 1580, 1607, 1577, 32, 1576, 1608, 1590, 1608, 1581, 46, 32,
          1605, 1579, 1575, 1604, 58, 32, 39, 1593, 1575, 1610, 1586, 32, 1571, 1585, 1608, 1581, 32, 1605, 1606, 32,
          1575, 1604, 1601, 1604, 1603, 1610, 32, 1604, 1587, 1610, 1583, 1610, 32, 1580, 1575, 1576, 1585, 39, 32, 1571,
          1608, 32, 39, 1605, 1606, 32, 1601, 1610, 1603, 1578, 1608, 1585, 1610, 1575, 32, 1573, 1604, 1609, 32, 1575,
          1604, 1605, 1606, 1578, 1586, 1607, 39>>,
          <<1593, 1584, 1585, 1575, 1611, 1548, 32, 1604, 1605, 32, 1571, 1578, 1605, 1603, 1606, 32, 1605, 1606, 32, 1575,
          1604, 1593, 1579, 1608, 1585, 32, 1593, 1604, 1609, 32, 1605, 1608, 1602, 1593, 58, 32, 42, 42>>,
          <<1593, 1584, 1585, 1575, 1611, 1548, 32, 1581, 1583, 1579, 32, 1582, 1591, 1571, 32, 1601, 1610, 32, 1605, 1593,
          1575, 1604, 1580, 1577, 32, 1591, 1604, 1576, 1603, 58, 32>>,
          <<10, 128652, 32, 42, 42, 1582, 1591, 1577, 32, 1575, 1604, 1585, 1581, 1604, 1577, 32, 1605, 1606, 32>>,
          <<128652, 32, 1582, 1591, 1577, 32, 1575, 1604, 1585, 1581, 1604, 1577, 32, 1605, 1606, 32>>}
    ELSE {<<80, 108, 101, 97, 115, 101, 32, 115, 112, 101, 99, 105, 102, 121, 32, 98, 111, 116, 104, 32,
          115, 116, 97, 114, 116, 105, 110, 103, 32, 112, 111, 105, 110, 116, 32, 97, 110, 100, 32, 100,
          101, 115, 116, 105, 110, 97, 116, 105, 111, 110, 32, 99, 108, 101, 97, 114, 108, 121, 46, 32,
          69, 120, 97, 109, 112, 108, 101, 58, 32, 39, 73, 32, 119, 97, 110, 116, 32, 116, 111, 32,
          103, 111, 32, 102, 114, 111, 109, 32, 70, 97, 108, 97, 107, 105, 32, 116, 111, 32, 83, 105,
          100, 105, 32, 71, 97, 98, 101, 114, 39, 32, 111, 114, 32, 39, 102, 114, 111, 109, 32, 86,
          105, 99, 116, 111, 114, 105, 97, 32, 116, 111, 32, 77, 111, 110, 116, 97, 122, 97, 104, 39>>,
          <<83, 111, 114, 114, 121, 44, 32, 73, 32, 99, 111, 117, 108, 100, 110, 39, 116, 32, 102, 105,
          110, 100, 32, 116, 104, 101, 32, 108, 111, 99, 97, 116, 105, 111, 110, 58, 32, 42, 42>>,
          <<83, 111, 114, 114, 121, 44, 32, 97, 110, 32, 101, 114, 114, 111, 114, 32, 111, 99, 99, 117,
          114, 114, 101, 100, 32, 119, 104, 105, 108, 101, 32, 112, 114, 111, 99, 101, 115, 115, 105, 110,
          103, 32, 121, 111, 117, 114, 32, 114, 101, 113, 117, 101, 115, 116, 58, 32>>,
          <<10, 128652, 32, 42, 42, 84, 114, 105, 112, 32, 80, 108, 97, 110, 32, 102, 114, 111, 109, 32>>,
          <<128652, 32, 84, 114, 105, 112, 32, 112, 108, 97, 110, 32, 102, 114, 111, 109, 32>>}

WrittenIn(text, lang) == \E opening \in MessageOpenings(lang) : StartsWith(text, opening)

\* C10: for every query and every behaviour of the collaborators (an NER
\* fallback that raises or returns malformed text or fields that are no
\* texts, a Planner client that raises or fails), process_query raises
\* nothing: the call is at one of its steps or has returned, and what it
\* returns is one text, a message in the language that detect_language
\* assigns to the query.
C10_AlwaysOneMessage ==
    fn = "process_query" =>
        /\ pc \in {"start", "ner", "geocode", "status", "plan", "done"}
        /\ pc = "done" =>
              /\ ret \in Seq(Nat) /\ ret # << >>
              /\ WrittenIn(ret, detect_language(arg))
              /\ ~WrittenIn(ret, IF detect_language(arg) = "ar" THEN "en" ELSE "ar")

\* The NER fallback answered an Arabic query with a number for the origin;
\* geocoding raised on it, and the Arabic error message came back.
C10_Witness ==
    /\ QueryDone /\ detect_language(arg) = "ar"
    /\ \E i \in CallsOf("generate_content") :
          calls[i][3][1] = "object" /\ calls[i][3][2].from = Num(7)
    /\ IsErrorMessage(ret)
    /\ WrittenIn(ret, "ar")

-----------------------------------------------------------------------------
(* Claims on the geocoding step of process_query *)

\* The requests to the Planner in the call log: status checks and plan requests
PlannerCalls == CallsOf("check_status") \cup CallsOf("plan_trip")

\* C11: in every run of process_query no request goes to the Planner, status
\* check or plan request, unless the origin and the destination have both
\* been geocoded to a Stop: whenever the query is about to call the Planner
\* or has called it, both results are the coordinates and name of a stop and
\* the two geocoding calls precede every Planner call, and a query one of
\* whose geocoding results is absent ends with no Planner call in its log.
C11_GeocodedBeforePlanner ==
    fn = "process_query" =>
        /\ (pc \in {"status", "plan"} \/ PlannerCalls # {}) =>
              /\ IsStop(from_coords) /\ IsStop(to_coords)
              /\ Cardinality(CallsOf("geocode")) = 2
              /\ \A g \in CallsOf("geocode") : \A p \in PlannerCalls : g < p
        /\ (from_coords = None \/ to_coords = None) =>
              /\ PlannerCalls = {}
              /\ pc \notin {"status", "plan"}

\* A query whose origin was geocoded to a stop and whose destination was not
\* has ended, after the two geocoding calls, without any call of the Planner.
C11_Witness ==
    /\ QueryDone
    /\ Cardinality(CallsOf("geocode")) = 2
    /\ IsStop(from_coords) /\ to_coords = None
    /\ PlannerCalls = {}

\* How the location-not-found message opens, by language, up to the name
NotFoundOpening(lang) ==
    IF lang = "ar"
    THEN <<1593, 1584, 1585, 1575, 1611, 1548, 32, 1604, 1605, 32, 1571, 1578, 1605, 1603, 1606, 32, 1605, 1606, 32, 1575,
          1604, 1593, 1579, 1608, 1585, 32, 1593, 1604, 1609, 32, 1605, 1608, 1602, 1593, 58, 32, 42, 42>>
    ELSE <<83, 111, 114, 114, 121, 44, 32, 73, 32, 99, 111, 117, 108, 100, 110, 39, 116, 32, 102, 105,
          110, 100, 32, 116, 104, 101, 32, 108, 111, 99, 97, 116, 105, 111, 110, 58, 32, 42, 42>>

\* Both extracted locations are texts and not empty
CompletePair ==
    /\ from_location[1] = "Some" /\ from_location[2] # << >>
    /\ to_location[1] = "Some" /\ to_location[2] # << >>

\* C12: when a complete (from, to) pair was extracted and the geocoding of an
\* endpoint is absent, process_query returns the location-not-found message
\* of the detected language with the extracted text of the failing endpoint
\* between its asterisks, and that text is the origin's when both fail.
C12_LocationNotFound ==
    (/\ QueryDone /\ CompletePair
     /\ Cardinality(CallsOf("geocode")) = 2
     /\ from_coords = None \/ to_coords = None) =>
        LET failing == IF from_coords = None THEN from_location[2] ELSE to_location[2]
        IN  /\ language = detect_language(arg)
            /\ StartsWith(ret, NotFoundOpening(language) \o failing \o <<42, 42, 46>>)

\* The query "from xyzzy to qqq" was answered: neither text is a place of the
\* gazetteer and the message names "xyzzy".
C12_Witness ==
    /\ QueryDone /\ CompletePair
    /\ from_location = Some(<<120, 121, 122, 122, 121>>) /\ to_location = Some(<<113, 113, 113>>)
    /\ Cardinality(CallsOf("geocode")) = 2
    /\ from_coords = None /\ to_coords = None
    /\ In(<<42, 42, 120, 121, 122, 122, 121, 42, 42>>, ret) /\ ~In(<<113, 113, 113>>, ret)

-----------------------------------------------------------------------------
(* plan_trip on a bounded set of replies to the plan request *)

\* The replies of the process_query specification, and their decoded bodies
\* under two more statuses
PlanTripReplies ==
    PlanReplies
    \cup {<<"response", status, reply[3]>> :
             status \in {404, 503},
             reply \in {r \in PlanReplies : r[1] = "response"}}

InitPlanTrip ==
    /\ stops = << >>
    /\ stop_dict = << >>
    /\ fn = "plan_trip"
    /\ pc = "call"
    /\ arg \in PlanTripReplies
    /\ ret = None
    /\ NoQuery
    /\ NewStore

PlanTripCall ==
    /\ fn = "plan_trip" /\ pc = "call"
    /\ ret' \in plan_trip(arg)
    /\ pc' = "done"
    /\ UNCHANGED <<waiting, store, stops, stop_dict, fn, arg, locals>>

NextPlanTrip == PlanTripCall

SpecPlanTrip == InitPlanTrip /\ [][NextPlanTrip]_vars

PlanTripDone == fn = "plan_trip" /\ pc = "done"

\* The raw itinerary can be normalized: its legs are a list and the places of
\* every leg are objects
Normalizable(itinerary) == Raise \notin parse_itinerary(itinerary)

\* The result has one normalized itinerary per raw itinerary of the reply, in
\* the same order
OnePerRawItinerary(result, reply) ==
    LET raw == ItinerariesOf(reply)
    IN  /\ Len(result.itineraries) = Len(raw)
        /\ \A i \in DOMAIN raw :
              Ok(result.itineraries[i]) \in parse_itinerary(raw[i])

\* The result is a failure with an error text and no itineraries
IsFailure(result) ==
    /\ ~result.success
    /\ result.error \in Seq(Nat) /\ result.error # << >>
    /\ result.itineraries = << >>

-----------------------------------------------------------------------------
(* check_status on every reply to the status request *)

MinStatus == 100
MaxStatus == 599

CheckStatusReplies ==
    {<<"session_error">>, <<"exception">>}
    \cup {<<"response", status>> : status \in MinStatus..MaxStatus}

InitCheckStatus ==
    /\ stops = << >>
    /\ stop_dict = << >>
    /\ fn = "check_status"
    /\ pc = "call"
    /\ arg \in CheckStatusReplies
    /\ ret = None
    /\ NoQuery
    /\ NewStore

CheckStatusCall ==
    /\ fn = "check_status" /\ pc = "call"
    /\ ret' = check_status(arg)
    /\ pc' = "done"
    /\ UNCHANGED <<waiting, store, stops, stop_dict, fn, arg, locals>>

NextCheckStatus == CheckStatusCall

SpecCheckStatus == InitCheckStatus /\ [][NextCheckStatus]_vars

CheckStatusDone == fn = "check_status" /\ pc = "done"

-----------------------------------------------------------------------------
(* The memory store (memory.py) *)

\* The caps of recent_locations and of search_history, and the tolerance of
\* the comparison of coordinates: 0.001 degree
MaxRecentLocations == 20
MaxSearchHistory == 50
Tolerance == 10000

\* A faulty slice, s[-(n + 1):], which keeps one entry too many.
LastNAndOne(s, n) == IF Len(s) <= n + 1 THEN s ELSE SubSeq(s, Len(s) - n, Len(s))

\* s[-n:] for n > 0
LastN(s, n) == IF Len(s) <= n THEN s ELSE SubSeq(s, Len(s) - n + 1, Len(s))

Abs(x) == IF x < 0 THEN -x ELSE x

\* A faulty test, which takes half the tolerance.
WithinHalf(entry, lat, lon) ==
    2 * Abs(entry.lat - lat) < Tolerance /\ 2 * Abs(entry.lon - lon) < Tolerance

\* The test of add_recent_location and add_favorite_location: both
\* coordinates are within the tolerance of the entry's
Within(entry, lat, lon) ==
    Abs(entry.lat - lat) < Tolerance /\ Abs(entry.lon - lon) < Tolerance

\* asdict(RecentLocation(name, lat, lon, timestamp))
RecentLocation(name, lat, lon, timestamp) ==
    [name |-> name, lat |-> lat, lon |-> lon, timestamp |-> timestamp, usage_count |-> 1]

\* A faulty update, which counts the visit for the last entry within the
\* tolerance instead of the first.
add_recent_location_last(m, name, lat, lon, t) ==
    LET recent == m.recent_locations
        found == {i \in DOMAIN recent : Within(recent[i], lat, lon)}
    IN  IF found # {}
        THEN LET i == Max(found)
             IN  [m EXCEPT !.recent_locations[i].timestamp = t,
                           !.recent_locations[i].usage_count = @ + 1]
        ELSE [m EXCEPT !.recent_locations =
                  LastN(Append(recent, RecentLocation(name, lat, lon, t)),
                        MaxRecentLocations)]

\* MemoryManager.add_recent_location at the time t: the store after the call.
\* A timestamp is the day of the call: the isoformat texts of the code
\* compare as their times do.
add_recent_location(m, name, lat, lon, t) ==
    LET recent == m.recent_locations
        found == {i \in DOMAIN recent : Within(recent[i], lat, lon)}
    IN  IF found # {}
        THEN LET i == Min(found)
             IN  [m EXCEPT !.recent_locations[i].timestamp = t,
                           !.recent_locations[i].usage_count = @ + 1]
        ELSE [m EXCEPT !.recent_locations =
                  LastN(Append(recent, RecentLocation(name, lat, lon, t)),
                        MaxRecentLocations)]

\* MemoryManager.add_favorite_location: the store after the call, and
\* whether the call saves it
add_favorite_location(m, name, lat, lon, t) ==
    LET favorite == [name |-> name, lat |-> lat, lon |-> lon, added_at |-> t]
        favorites == m.favorite_locations
    IN  IF \E i \in DOMAIN favorites : Within(favorites[i], lat, lon)
        THEN [memory |-> m, saves |-> FALSE]
        ELSE [memory |-> [m EXCEPT !.favorite_locations = Append(favorites, favorite)],
              saves  |-> TRUE]

\* MemoryManager.update_preferences with one keyword argument
update_preferences(m, key, value) ==
    IF key \in DOMAIN m.user_preferences
    THEN [m EXCEPT !.user_preferences[key] = value]
    ELSE m

\* MemoryManager.add_search_history
add_search_history(m, query, from, to, t) ==
    LET search_entry == [query |-> query, from_location |-> from,
                         to_location |-> to, timestamp |-> t]
    IN  [m EXCEPT !.search_history =
            LastN(Append(m.search_history, search_entry), MaxSearchHistory)]

\* The entries whose timestamp is after the cutoff, in their order
NewerThan(entries, cutoff) ==
    LET newer(entry) == entry.timestamp > cutoff
    IN  SelectSeq(entries, newer)

\* MemoryManager.clear_old_data
clear_old_data(m, days, t) ==
    LET cutoff == t - days
    IN  [m EXCEPT !.recent_locations = NewerThan(m.recent_locations, cutoff),
                  !.search_history = NewerThan(m.search_history, cutoff)]

\* MemoryManager._save_memory: the file after the call holds the store.  (A
\* write that fails is logged and leaves the store in memory as it is; the
\* writes of the model succeed.)
save_memory(m) == Some(m)

-----------------------------------------------------------------------------
(* The store under sequences of calls made the same day *)

\* The places of the calls lie on a line, 0.002 degree apart; a new place is
\* the one after the newest entry's
NumPlaces == 22
\* The searches of the calls rotate through as many queries
NumQueries == 3
\* The usage count that a place reaches
MaxUsage == 2

Place(k) == [lat |-> 312000000 + k * 20000, lon |-> 299000000]
PlaceOf(entry) == (entry.lat - Place(0).lat) \div 20000
PlaceText(k) == <<112>> \o Digits(k)

\* The place of the next new location
NextPlace ==
    LET recent == memory.recent_locations
    IN  IF recent = << >> THEN 0
        ELSE (PlaceOf(recent[Len(recent)]) + 1) % NumPlaces

QueryText(k) == <<113>> \o Digits(k)

\* The query of the next search
NextQuery ==
    LET history == memory.search_history
    IN  IF history = << >> THEN 0
        ELSE (history[Len(history)].query[2] - 48 + 1) % NumQueries

InitMemory ==
    /\ stops = << >>
    /\ stop_dict = << >>
    /\ fn = "MemoryManager"
    /\ pc = "ready"
    /\ arg = None
    /\ ret = None
    /\ NoQuery
    /\ NewStore

Saved(m) ==
    /\ memory' = m
    /\ memory_file' = save_memory(m)

\* add_recent_location of the next new place, or of a point 0.0005 degree
\* from the oldest entry
AddRecentLocation ==
    /\ fn = "MemoryManager"
    /\ \E which \in {"new", "oldest"} :
          LET recent == memory.recent_locations
          IN  IF which = "new"
              THEN Saved(add_recent_location(memory, PlaceText(NextPlace),
                                             Place(NextPlace).lat, Place(NextPlace).lon, now))
              ELSE /\ recent # << >>
                   /\ recent[1].usage_count < MaxUsage
                   /\ Saved(add_recent_location(memory, << >>, recent[1].lat + 5000,
                                                recent[1].lon - 5000, now))
    /\ UNCHANGED <<now, stops, stop_dict, fn, pc, arg, ret, locals, waiting>>

AddFavoriteLocation ==
    /\ fn = "MemoryManager"
    /\ \E lat \in {Place(0).lat} :
          LET result == add_favorite_location(memory, PlaceText(0), lat, Place(0).lon, now)
          IN  IF result.saves THEN Saved(result.memory)
              ELSE UNCHANGED <<memory, memory_file>>
    /\ UNCHANGED <<now, stops, stop_dict, fn, pc, arg, ret, locals, waiting>>

UpdatePreferences ==
    /\ fn = "MemoryManager"
    /\ \E key \in {"language", "theme"} :
          Saved(update_preferences(memory, key, "ar"))
    /\ UNCHANGED <<now, stops, stop_dict, fn, pc, arg, ret, locals, waiting>>

AddSearchHistory ==
    /\ fn = "MemoryManager"
    /\ Saved(add_search_history(memory, QueryText(NextQuery), PlaceText(0),
                                PlaceText(1), now))
    /\ UNCHANGED <<now, stops, stop_dict, fn, pc, arg, ret, locals, waiting>>

\* clear_old_data of the entries of more than 30 days, which are none, or of
\* all entries: the calls of the model are made the same day
ClearOldData ==
    /\ fn = "MemoryManager"
    /\ \E days \in {0, 30} : Saved(clear_old_data(memory, days, now))
    /\ UNCHANGED <<now, stops, stop_dict, fn, pc, arg, ret, locals, waiting>>

NextMemory ==
    \/ AddRecentLocation
    \/ AddFavoriteLocation
    \/ UpdatePreferences
    \/ AddSearchHistory
    \/ ClearOldData

SpecMemory == InitMemory /\ [][NextMemory]_vars

-----------------------------------------------------------------------------
(* Claims on the memory store *)

\* The list after is the list before with one entry appended, cut to its
\* last cap entries
AppendedAndCut(after, before, cap) ==
    /\ Len(after) = Min({Len(before) + 1, cap})
    /\ \A i \in 1..(Len(after) - 1) :
          after[i] = before[Len(before) + 1 - Len(after) + i]

\* The list after is the list before without the entries up to a cutoff, in
\* the same order
Cleared(after, before) ==
    \E cutoff \in {now - 30, now} :
        /\ Len(after) = Cardinality({i \in DOMAIN before : before[i].timestamp > cutoff})
        /\ \A i \in DOMAIN after :
              \E j \in DOMAIN before :
                  /\ after[i] = before[j]
                  /\ Cardinality({k \in 1..j : before[k].timestamp > cutoff}) = i

\* The list after has the entries of the list before, one of them used once
\* more
UsedAgain(after, before) ==
    /\ Len(after) = Len(before)
    /\ \E i \in DOMAIN before :
          /\ after[i] = [before[i] EXCEPT !.usage_count = @ + 1,
                                          !.timestamp = after[i].timestamp]
          /\ \A j \in DOMAIN before \ {i} : after[j] = before[j]

\* C15: starting from an empty memory store, after any sequence of
\* add_recent_location, add_search_history, add_favorite_location,
\* update_preferences and clear_old_data calls, recent_locations holds at
\* most 20 entries and search_history at most 50, and when a cap is exceeded
\* the entries kept are the most recently appended ones in their original
\* order: every call leaves each list as it is, or appends one entry to it
\* and keeps the last 20 (50), or counts a use of a location, or removes the
\* entries up to a cutoff.
C15_Caps ==
    [][/\ Len(memory'.recent_locations) <= 20
       /\ Len(memory'.search_history) <= 50
       /\ \/ memory'.recent_locations = memory.recent_locations
          \/ AppendedAndCut(memory'.recent_locations, memory.recent_locations, 20)
          \/ UsedAgain(memory'.recent_locations, memory.recent_locations)
          \/ Cleared(memory'.recent_locations, memory.recent_locations)
       /\ \/ memory'.search_history = memory.search_history
          \/ AppendedAndCut(memory'.search_history, memory.search_history, 50)
          \/ Cleared(memory'.search_history, memory.search_history)]_vars

\* Both caps have been exceeded: the store holds 20 locations and 50
\* searches, the oldest of the 21 places and of the 51 searches are gone
\* and the newest are the last.
C15_Witness ==
    /\ fn = "MemoryManager"
    /\ Len(memory.recent_locations) = 20
    /\ Len(memory.search_history) = 50
    /\ [i \in 1..20 |-> PlaceOf(memory.recent_locations[i])] = [i \in 1..20 |-> i]
    /\ memory.search_history[1].query = QueryText(1)
    /\ memory.search_history[50].query = QueryText(2)

-----------------------------------------------------------------------------
(* Claims on the strategies of geocode *)

\* The keys of the index that contain the text or occur in it
SubstringRelated(key) ==
    {alias \in DOMAIN stop_dict : In(alias, key) \/ In(key, alias)}

\* The result is a stop that an anchor of the table names: the anchor occurs
\* in the text and its English name in the name of the stop
NamedByAnchor(result, key) ==
    \E p \in DOMAIN arabic_patterns : \E i \in DOMAIN stops :
        /\ In(arabic_patterns[p][1], key)
        /\ In(lower(arabic_patterns[p][2]), lower(stops[i].stop_name))
        /\ result = Coords(stops[i])

\* C16: geocode applies its strategies strictly in order and the first that
\* matches decides the result.  If the trimmed lowercased input is a key of
\* the alias index, the Stop mapped to that key is returned, whatever other
\* aliases are substring-related; the substring scan decides only when the
\* exact lookup fails, and returns the Stop mapped to the first index entry,
\* in iteration order, whose alias contains the input or is contained in it;
\* the Arabic anchor table decides only when both fail.
C16_StrategyOrder ==
    GeocodeDone =>
        LET key  == strip(lower(arg))
            hits == SubstringRelated(key)
        IN  IF key \in DOMAIN stop_dict
            THEN ret = Coords(stops[stop_dict[key].stop])
            ELSE IF hits # {}
            THEN \E first \in hits :
                    /\ \A alias \in hits : stop_dict[first].pos <= stop_dict[alias].pos
                    /\ ret = Coords(stops[stop_dict[first].stop])
            ELSE ret = None \/ NamedByAnchor(ret, key)

\* A key of the index was looked up and its own stop came back, although a
\* key that comes earlier in the index is substring-related to it and maps to
\* another stop.
C16_Witness ==
    /\ GeocodeDone
    /\ LET key == strip(lower(arg))
       IN  /\ key \in DOMAIN stop_dict
           /\ ret = Coords(stops[stop_dict[key].stop])
           /\ \E alias \in SubstringRelated(key) :
                 /\ stop_dict[alias].pos < stop_dict[key].pos
                 /\ Coords(stops[stop_dict[alias].stop]) # ret

\* C17: geocode of an empty or whitespace-only text returns absent (no Stop).
C17_EmptyAbsent ==
    (GeocodeDone /\ strip(arg) = << >>) => ret = None

-----------------------------------------------------------------------------
(* extract_locations on a bounded set of queries *)

\* Origins of the queries "من <origin> <destination phrase>": كرموز, العجمي,
\* zz, محطة مصر
ExtractOrigins ==
    {<<1603, 1585, 1605, 1608, 1586>>, <<1575, 1604, 1593, 1580, 1605, 1610>>, <<122, 122>>, <<1605, 1581, 1591, 1577, 32, 1605, 1589, 1585>>}

\* The queries with the twelve destination phrases of the table
PhraseQueries ==
    {<<1605, 1606, 32>> \o origin \o <<32>> \o destination_map[k][1] :
        origin \in ExtractOrigins, k \in DOMAIN destination_map}

\* Queries of other forms, and queries that match no template
FreeQueries ==
    {<<102, 114, 111, 109, 32, 86, 105, 99, 116, 111, 114, 105, 97, 32, 116, 111, 32, 77, 111, 110,
       116, 97, 122, 97, 104>>, <<102, 114, 111, 109, 32, 97, 32, 116, 111, 32, 98>>,
     \* من فيكتوريا إلى المنتزه
     <<1605, 1606, 32, 1601, 1610, 1603, 1578, 1608, 1585, 1610, 1575, 32, 1573, 1604, 1609, 32, 1575, 1604, 1605, 1606, 1578, 1586, 1607>>,
     \* من كرموز  لفيكتوريا الان
     <<1605, 1606, 32, 1603, 1585, 1605, 1608, 1586, 32, 32, 1604, 1601, 1610, 1603, 1578, 1608, 1585, 1610, 1575, 32, 1575, 1604, 1575, 1606>>,
     \* عايز اروح المنتزه
     <<1593, 1575, 1610, 1586, 32, 1575, 1585, 1608, 1581, 32, 1575, 1604, 1605, 1606, 1578, 1586, 1607>>,
     <<104, 101, 108, 108, 111>>, <<118, 105, 99, 116, 111, 114, 105, 97, 32, 109, 111, 110, 116, 97, 122, 97, 104>>, <<115, 105, 100, 105, 32, 98, 105, 115, 104, 114, 32, 115, 105, 100, 105, 32, 103, 97, 98, 101, 114>>,
     <<119, 104, 101, 114, 101, 32, 105, 115, 32, 115, 109, 111, 117, 104, 97>>, <<>>, <<113, 113, 113>>, <<118, 105, 99, 116, 111, 114, 105, 97>>, <<115, 109, 111, 117, 104, 97, 32, 115, 109, 111, 117, 104, 97>>,
     <<97, 98, 117, 32, 113, 105, 114>>, <<122, 122, 32, 118, 105, 99, 116, 111, 114, 105, 97>>, <<49, 50>>, <<107, 97, 98, 111>>, <<75, 97, 114, 109, 117, 115>>,
     <<116, 111, 32, 107, 97, 98, 111>>}

ExtractQueries == PhraseQueries \cup FreeQueries

InitExtract ==
    /\ InitGazetteer
    /\ fn = "extract_locations"
    /\ pc = "call"
    /\ arg \in ExtractQueries
    /\ ret = None
    /\ NoQuery
    /\ NewStore

ExtractLocationsCall ==
    /\ fn = "extract_locations" /\ pc = "call"
    /\ ret' \in extract_locations(arg)
    /\ pc' = "done"
    /\ UNCHANGED <<waiting, store, stops, stop_dict, fn, arg, locals>>

NextExtract == ExtractLocationsCall

SpecExtract == InitExtract /\ [][NextExtract]_vars

-----------------------------------------------------------------------------
(* Claims on extract_locations *)

ExtractDone == fn = "extract_locations" /\ pc = "done"

\* The text that the templates are matched against
QueryLower == lower(normalize_egyptian_text(arg))

\* The templates that match the text, and the first of them (0 when none)
Matching(text) ==
    {k \in DOMAIN patterns : re_search_from(re_compile(patterns[k]), text, 1) # NoMatch}

FirstMatching(text) == IF Matching(text) = {} THEN 0 ELSE Min(Matching(text))

\* The twelve single-capture templates
SingleCapture == {k \in DOMAIN patterns : GroupCount(re_compile(patterns[k])) = 1}

\* What the template k captures in the text, trimmed
Captured(k, text) == strip(re_search_from(re_compile(patterns[k]), text, 1)[2][1])

\* The place name that the destination table assigns to the trailing phrase
\* of the single-capture template k: the templates and the entries of the
\* table are in the same order
Assigned(k) == destination_map[k - Min(SingleCapture) + 1][2]

\* C18: for each of the twelve single-capture templates, when it is the
\* first template that matches the normalized query, extract_locations
\* returns (trimmed captured text, the place name that the destination table
\* assigns to that template's trailing phrase).
C18_SingleCapture ==
    ExtractDone =>
        LET k == FirstMatching(QueryLower)
        IN  k \in SingleCapture =>
               ret = <<Some(Captured(k, QueryLower)), Some(Assigned(k))>>

\* The single-capture templates for which no key of the destination table is
\* found in the template's text
WithoutDestination == {k \in SingleCapture : DestinationOf(patterns[k]) = None}

\* C19: when a single-capture template matches but no key of the destination
\* table is found for that template, extract_locations stops at that template
\* and yields no destination: its result is (captured origin, None), without
\* trying later templates or the gazetteer fallback.
C19_NoDestination ==
    ExtractDone =>
        LET k == FirstMatching(QueryLower)
        IN  k \in WithoutDestination =>
               ret = <<Some(Captured(k, QueryLower)), None>>

\* The alias hits of the gazetteer fallback in a text, as pairs (lowercased
\* alias text, number of the stop): two hits are distinct when they differ in
\* one of the two
DistinctHits(text) ==
    UNION {{<<lower(alias), i>> : alias \in {a \in stops[i].aliases : In(lower(a), text)}} :
              i \in DOMAIN stops}

\* The stops with an alias hit in the text, and the aliases of stop i that hit
StopsHit(text) == {h[2] : h \in DistinctHits(text)}
AliasesHit(i, text) == {alias \in stops[i].aliases : In(lower(alias), text)}

\* The pairs of alias texts of the first two hits in encounter order: the
\* stops are met in the order of the list, the aliases of one stop in an
\* order that the build does not fix
FirstTwoHits(text) ==
    LET i1 == Min(StopsHit(text))
        later == StopsHit(text) \ {i1}
    IN  ({<<Some(a), Some(b)>> : a \in AliasesHit(i1, text), b \in AliasesHit(i1, text)}
            \ {<<Some(a), Some(a)>> : a \in AliasesHit(i1, text)})
        \cup (IF Cardinality(AliasesHit(i1, text)) = 1 /\ later # {}
              THEN {<<Some(a), Some(b)>> : a \in AliasesHit(i1, text),
                                           b \in AliasesHit(Min(later), text)}
              ELSE {})

\* C20: when no template matches, the gazetteer fallback returns a (from, to)
\* pair only if the normalized query contains at least two distinct alias
\* hits (hits that differ in lowercased alias text or in Stop), and then the
\* alias texts of the first two hits in encounter order; with fewer than two
\* distinct hits it returns (None, None).
C20_GazetteerFallback ==
    (ExtractDone /\ FirstMatching(QueryLower) = 0) =>
        IF Cardinality(DistinctHits(QueryLower)) >= 2
        THEN ret \in FirstTwoHits(QueryLower)
        ELSE ret = <<None, None>>

-----------------------------------------------------------------------------
(* Claims on the whole minutes of the normalised itineraries *)

\* m is a nearest whole number of minutes to s seconds
NearestMinute(m, s) == Abs(60 * m - s) <= 30

\* C21: for every non-negative integer duration s in seconds, of an itinerary
\* or of a leg, the normalised whole-minute value m is a nearest integer to
\* s / 60, that is |60 * m - s| <= 30; it is never obtained by truncation.
C21_NearestMinute ==
    (ParseDone /\ ret[1] = "Ok") =>
        /\ getn(arg.duration) # None =>
              NearestMinute(ret[2].total_duration_min, arg.duration[2])
        /\ \A i \in DOMAIN ret[2].legs :
              getn(arg.legs[2][i].duration) # None =>
                  NearestMinute(ret[2].legs[i].duration_min,
                                arg.legs[2][i].duration[2])

\* An itinerary and its leg of 59 seconds were normalised to 1 minute, where
\* truncation gives 0.
C21_Witness ==
    /\ ParseDone /\ ret[1] = "Ok"
    /\ arg.duration = Some(59)
    /\ Len(arg.legs[2]) = 1 /\ arg.legs[2][1].duration = Some(59)
    /\ ret[2].total_duration_min = 1
    /\ ret[2].legs[1].duration_min = 1

-----------------------------------------------------------------------------
(* plan_route_with_otp and format_routes_response on one raw itinerary *)

\* The raw itineraries: one bus leg with every combination of the route
\* fields, and up to two legs of every kind of mode and transit flag
RouteInputs ==
    RouteItineraries
    \cup {RawItinerary(Some(1800), Absent, Some(ls)) : ls \in LegLists(2)}

InitRoutes ==
    /\ stops = << >>
    /\ stop_dict = << >>
    /\ fn = "plan_route_with_otp"
    /\ pc = "call"
    /\ arg \in RouteInputs
    /\ ret = None
    /\ language \in {"ar", "en"}
    /\ from_location = None /\ to_location = None
    /\ from_coords = None /\ to_coords = None
    /\ routes = None
    /\ calls = << >>
    /\ waiting = << >>
    /\ NewStore

\* plan_route_with_otp when the Planner is online and answers the plan
\* request with the itinerary
PlanRouteWithOtp ==
    /\ fn = "plan_route_with_otp" /\ pc = "call"
    /\ \E outcome \in plan_trip(<<"response", 200,
                                  PlanData(Absent, Plan(Some(<<arg>>)))>>) :
          routes' = plan_route_with_otp(outcome)
    /\ fn' = "format_routes_response"
    /\ UNCHANGED <<waiting, store, stops, stop_dict, pc, arg, ret, language, from_location,
                   to_location, from_coords, to_coords, calls>>

\* format_routes_response on the routes, from A to B
FormatRoutesResponse ==
    /\ fn = "format_routes_response" /\ pc = "call"
    /\ routes # None
    /\ ret' \in format_routes_response(routes[2], TextA, TextB, language)
    /\ pc' = "done"
    /\ UNCHANGED <<waiting, store, stops, stop_dict, fn, arg, locals>>

NextRoutes == PlanRouteWithOtp \/ FormatRoutesResponse

SpecRoutes == InitRoutes /\ [][NextRoutes]_vars

-----------------------------------------------------------------------------
(* Claims on the routes shown to the user *)

RoutesPlanned == fn = "format_routes_response" /\ routes # None
RoutesDone == fn = "format_routes_response" /\ pc = "done" /\ ret[1] = "Ok"

\* The Planner supplies a text field: the key is there with a text that is
\* not empty
Supplied(field) == field \notin {Absent, None, Some(<< >>)}

\* The route label of a raw leg by the order short designation, generic
\* route field, long-form name
LabelOf(leg) ==
    IF Supplied(leg.routeShortName) THEN leg.routeShortName
    ELSE IF Supplied(leg.route) THEN leg.route
    ELSE IF Supplied(leg.routeLongName) THEN leg.routeLongName
    ELSE None

\* The words that the step line of a bus puts around the label: "BUS",
\* " from " and " "; أتوبيس, " من " and " خط "
BusWord(lang) == IF lang = "ar" THEN <<1571, 1578, 1608, 1576, 1610, 1587>> ELSE <<66, 85, 83>>
FromWord(lang) == IF lang = "ar" THEN <<32, 1605, 1606, 32>> ELSE <<32, 102, 114, 111, 109, 32>>
LabelWord(lang) == IF lang = "ar" THEN <<32, 1582, 1591, 32>> ELSE <<32>>

\* The step line of a bus without headsign shows the label, or none
ShowsLabel(text, label, lang) ==
    In(BusWord(lang)
       \o (IF label = None THEN << >> ELSE LabelWord(lang) \o label[2])
       \o FromWord(lang), text)

\* C22: for every transit leg, the route label shown to the user is the
\* short route designation when the Planner supplies one, otherwise the
\* generic route field, otherwise the long-form route name, otherwise absent,
\* for every combination of present and absent fields.
C22_RouteLabel ==
    /\ RoutesPlanned =>
          \A i \in DOMAIN arg.legs[2] :
              LET shown == routes[2][1].steps[i].route
              IN  IF LabelOf(arg.legs[2][i]) = None
                  THEN ~Truthy(shown)
                  ELSE shown = LabelOf(arg.legs[2][i])
    /\ (RoutesDone /\ arg \in RouteItineraries) =>
          ShowsLabel(ret[2], LabelOf(arg.legs[2][1]), language)

\* A bus leg with the three fields was shown with the short designation, in
\* Arabic.
C22_Witness ==
    /\ RoutesDone /\ arg \in RouteItineraries /\ language = "ar"
    /\ arg.legs[2][1].route = Some(TextRoute)
    /\ arg.legs[2][1].routeShortName = Some(TextShort)
    /\ arg.legs[2][1].routeLongName = Some(TextLong)
    /\ routes[2][1].steps[1].route = Some(TextShort)
    /\ ShowsLabel(ret[2], Some(TextShort), "ar")

\* The words before the count of transfers in the line of an option:
\* "Transfers: " and "تحويلات: "
TransfersWord(lang) == IF lang = "ar" THEN <<1578, 1581, 1608, 1610, 1604, 1575, 1578, 58, 32>> ELSE <<84, 114, 97, 110, 115, 102, 101, 114, 115, 58, 32>>

\* The transfer count that the Planner client computes for a raw itinerary:
\* the legs of a transit mode or flagged as transit, minus 1, floored at 0
ClientTransfers(itinerary) ==
    IF TransitLegCount(itinerary) >= 1 THEN TransitLegCount(itinerary) - 1 ELSE 0

\* C23: for every itinerary rendered by format_routes_response, the transfer
\* count printed in that option's header equals the transfer count the
\* Planner client computed for the same itinerary (transit-mode or
\* transit-flagged legs minus 1, floored at 0), for every combination of leg
\* modes.
C23_HeaderTransfers ==
    RoutesDone =>
        In(TransfersWord(language) \o Digits(ClientTransfers(arg)) \o <<10>>, ret[2])

-----------------------------------------------------------------------------
(* add_recent_location on points that lie near one another *)

\* The calls of a run, each at a later time than the one before
MaxCalls == 4
\* The points of the calls: latitudes 0.0004 degree apart, on two meridians
\* 0.001 degree apart
MaxPoint == 4

Point(k, e) == [lat |-> 312000000 + k * 4000, lon |-> 299000000 + e * Tolerance]

InitRecent ==
    /\ stops = << >>
    /\ stop_dict = << >>
    /\ fn = "add_recent_location"
    /\ pc = "ready"
    /\ arg = None
    /\ ret = None
    /\ NoQuery
    /\ NewStore

\* add_recent_location of a point, one day after the call before: arg holds
\* the arguments of the call
AddRecentLocationNear ==
    /\ fn = "add_recent_location"
    /\ now < MaxCalls
    /\ now' = now + 1
    /\ \E k \in 0..MaxPoint, e \in {0, 1} :
          /\ arg' = [name |-> <<112>> \o Digits(k) \o Digits(e),
                     lat |-> Point(k, e).lat, lon |-> Point(k, e).lon]
          /\ Saved(add_recent_location(memory, arg'.name, arg'.lat, arg'.lon, now'))
    /\ UNCHANGED <<stops, stop_dict, fn, pc, ret, locals, waiting>>

NextRecent == AddRecentLocationNear

SpecRecent == InitRecent /\ [][NextRecent]_vars

-----------------------------------------------------------------------------
(* Claims on the recent locations *)

\* The latitude and the longitude of the entry are both strictly within
\* 0.001 degree of the point's
Near(entry, point) ==
    /\ entry.lat - point.lat < 10000 /\ point.lat - entry.lat < 10000
    /\ entry.lon - point.lon < 10000 /\ point.lon - entry.lon < 10000

\* The entries of a list that are near the point
NearEntries(recent, point) == {i \in DOMAIN recent : Near(recent[i], point)}

\* C24: add_recent_location with coordinates whose latitude and longitude are
\* both strictly within 0.001 degree of an existing entry adds no entry: it
\* increments the usage_count of the first such entry by exactly 1 and
\* refreshes its timestamp, leaving that entry's name and coordinates, every
\* other entry and the list length unchanged.
C24_RepeatVisit ==
    [][LET before == memory.recent_locations
           after == memory'.recent_locations
       IN  NearEntries(before, arg') # {} =>
              LET first == Min(NearEntries(before, arg'))
              IN  /\ Len(after) = Len(before)
                  /\ after[first].usage_count = before[first].usage_count + 1
                  /\ after[first].timestamp = now'
                  /\ after[first].name = before[first].name
                  /\ after[first].lat = before[first].lat
                  /\ after[first].lon = before[first].lon
                  /\ \A j \in DOMAIN before : j # first => after[j] = before[j]
      ]_vars

\* A point near the first and the second entry was added: the visit was
\* counted for the first, at the time of the call, and no entry was added.
C24_Witness ==
    /\ fn = "add_recent_location"
    /\ Len(memory.recent_locations) = 2
    /\ NearEntries(memory.recent_locations, arg) = {1, 2}
    /\ memory.recent_locations[1].usage_count = 2
    /\ memory.recent_locations[1].timestamp = now
    /\ memory.recent_locations[1].name # arg.name
    /\ memory.recent_locations[2].usage_count = 1
    /\ memory.recent_locations[2].timestamp < now

-----------------------------------------------------------------------------
(* Concurrent calls of process_query on one agent *)

\* The position and the local variables of the call that is running
Running ==
    [fn |-> fn, pc |-> pc, arg |-> arg, ret |-> ret, language |-> language,
     from_location |-> from_location, to_location |-> to_location,
     from_coords |-> from_coords, to_coords |-> to_coords,
     routes |-> routes, calls |-> calls]

\* A call of process_query that has not started
Started(query) ==
    [fn |-> "process_query", pc |-> "start", arg |-> query, ret |-> None,
     language |-> "", from_location |-> None, to_location |-> None,
     from_coords |-> None, to_coords |-> None, routes |-> None, calls |-> << >>]

\* The query of the second call, in the other language: the gazetteer knows
\* its destination and not its origin
\* من ## إلى المنتزه
OtherQueries == {<<1605, 1606, 32, 35, 35, 32, 1573, 1604, 1609, 32, 1575, 1604, 1605, 1606, 1578, 1586, 1607>>}

\* The queries of the first call: one that goes to the Planner and one that
\* goes to the NER fallback
FirstQueries == {VictoriaToMontazah, <<119, 104, 101, 114, 101, 32, 105, 115, 32, 115, 109, 111, 117, 104, 97>>}

\* Two calls of process_query on one agent, both before their first step
InitConcurrent ==
    /\ InitGazetteer
    /\ fn = "process_query"
    /\ pc = "start"
    /\ arg \in FirstQueries
    /\ ret = None
    /\ language = ""
    /\ from_location = None /\ to_location = None
    /\ from_coords = None /\ to_coords = None
    /\ routes = None
    /\ calls = << >>
    /\ \E query \in OtherQueries : waiting = <<Started(query)>>
    /\ NewStore

\* The event loop suspends the running call at a step of process_query and
\* resumes the call that has waited longest.
Switch ==
    /\ waiting # << >>
    /\ LET task == Head(waiting)
       IN  /\ fn' = task.fn /\ pc' = task.pc /\ arg' = task.arg /\ ret' = task.ret
           /\ language' = task.language
           /\ from_location' = task.from_location /\ to_location' = task.to_location
           /\ from_coords' = task.from_coords /\ to_coords' = task.to_coords
           /\ routes' = task.routes /\ calls' = task.calls
    /\ waiting' = Append(Tail(waiting), Running)
    /\ UNCHANGED <<store, stops, stop_dict>>

NextConcurrent ==
    \/ ExtractLocations
    \/ NerFallback
    \/ GeocodeLocations
    \/ CheckStatus
    \/ PlanTrip
    \/ Switch

SpecConcurrent == InitConcurrent /\ [][NextConcurrent]_vars

\* The replies that a call log holds of one collaborator
RepliesIn(log, kind) ==
    {log[i][Len(log[i])] : i \in {j \in DOMAIN log : log[j][1] = kind}}

\* process_query run alone on the gazetteer: its possible responses to a
\* query, when the collaborators answer as in the log
ResponsesAlone(query, log) ==
    LET lang == detect_language(query)
        planned(f, t) ==
            UNION {IF check_status(status) # Ok(TRUE)
                   THEN create_basic_route(f, t, lang)
                   ELSE UNION {UNION {
                            LET found == plan_route_with_otp(outcome)
                            IN  IF found # None /\ Len(found[2]) > 0
                                THEN {IF out[1] = "Raise"
                                      THEN error_message(query, out[2])
                                      ELSE out[2] :
                                        out \in format_routes_response(found[2], f[3],
                                                                       t[3], lang)}
                                ELSE create_basic_route(f, t, lang) :
                            outcome \in plan_trip(reply)} :
                          reply \in RepliesIn(log, "plan_trip")} :
                   status \in RepliesIn(log, "check_status")}
        geocoded(from, to) ==
            UNION {IF f[1] = "Raise" THEN {error_message(query, f[2])}
                   ELSE UNION {IF t[1] = "Raise" THEN {error_message(query, t[2])}
                               ELSE IF f[2] = None THEN {not_found(from, lang)}
                               ELSE IF t[2] = None THEN {not_found(to, lang)}
                               ELSE planned(f[2], t[2]) :
                               t \in geocode_location(to)} :
                   f \in geocode_location(from)}
        located(from, to) ==
            IF Missing(from, to) THEN {please_specify(lang)} ELSE geocoded(from, to)
    IN  UNION {IF ~Missing(pair[1], pair[2]) THEN located(pair[1], pair[2])
               ELSE UNION {LET smart == extract_locations_smart(reply)
                           IN  located(Or(pair[1], smart[1]), Or(pair[2], smart[2])) :
                           reply \in RepliesIn(log, "generate_content")} :
               pair \in extract_locations(query)}

Finished(task) == task.fn = "process_query" /\ task.pc = "done"

\* C25: the stop list and the alias index are never modified after
\* construction: no step of process_query, with its calls of
\* extract_locations, geocode_location, geocode and search_stops, changes
\* either; and in every interleaving of two concurrent calls of process_query
\* each query gets a response that it gets when it runs alone against the
\* same replies of the collaborators (a call ends while it is running, so
\* the response is compared there).
C25_GazetteerNeverModified ==
    /\ [][stops' = stops /\ stop_dict' = stop_dict]_vars
    /\ [](Finished(Running) => ret \in ResponsesAlone(arg, calls))

\* Two calls took turns: both went through the gazetteer, the first was
\* answered in English with the itineraries of the Planner and the second
\* was told in Arabic that its origin is unknown, and each made its own
\* calls only.
C25_Witness ==
    /\ QueryDone /\ arg = VictoriaToMontazah /\ PlannerReturnedWellFormed
    /\ Len(calls) = 4
    /\ Len(waiting) = 1 /\ Finished(waiting[1])
    /\ waiting[1].arg \in OtherQueries
    /\ waiting[1].from_coords = None /\ waiting[1].to_coords # None
    /\ waiting[1].ret = not_found(waiting[1].from_location, "ar")
    /\ Len(waiting[1].calls) = 2

-----------------------------------------------------------------------------
(* Claims on the order of the requests to the Planner *)

\* The status check number i of the call log reported the Planner online
ReportedOnline(i) == calls[i] = <<"check_status", <<"response", 200>>>>

\* C26: in plan_route_with_otp the plan request is issued only after a status
\* check made in the same call has reported the Planner online; when the
\* status check reports offline or fails, no plan request is issued and the
\* result is absent.
C26_StatusBeforePlan ==
    fn = "process_query" =>
        /\ \A p \in CallsOf("plan_trip") : p > 1 /\ ReportedOnline(p - 1)
        /\ pc = "plan" => (calls # << >> /\ ReportedOnline(Len(calls)))
        /\ ReportedOffline =>
              /\ CallsOf("plan_trip") = {}
              /\ pc # "plan"
              /\ routes = None

\* A query has ended whose status check failed for the session: no plan
\* request followed and there are no routes.
C26_Witness ==
    /\ QueryDone
    /\ \E i \in CallsOf("check_status") : calls[i][2] = <<"session_error">>
    /\ CallsOf("plan_trip") = {}
    /\ routes = None

-----------------------------------------------------------------------------
(* geocode_location alone: one call on a bounded set of texts *)

InitGeocodeLocation ==
    /\ InitGazetteer
    /\ fn = "geocode_location"
    /\ pc = "call"
    /\ arg \in GeocodeTexts
    /\ ret = None
    /\ NoQuery
    /\ NewStore

\* geocode_location(arg): from_coords holds the result of geocode, and calls
\* the call of search_stops, which is made when that result is None, with
\* the matches it returns
GeocodeLocationCall ==
    /\ fn = "geocode_location" /\ pc = "call"
    /\ \E result \in geocode(arg) :
          LET matches == search_stops(arg)
          IN  /\ from_coords' = result
              /\ calls' = IF result # None THEN << >>
                          ELSE <<<<"search_stops", arg, matches>>>>
              /\ ret' = IF result # None THEN Ok(result)
                        ELSE IF matches # {} THEN Ok(Coords(stops[Min(matches)]))
                        ELSE Ok(None)
              /\ ret' \in geocode_location(Some(arg))
    /\ pc' = "done"
    /\ UNCHANGED <<waiting, store, stops, stop_dict, fn, arg, language, from_location,
                   to_location, to_coords, routes>>

NextGeocodeLocation == GeocodeLocationCall

SpecGeocodeLocation == InitGeocodeLocation /\ [][NextGeocodeLocation]_vars

-----------------------------------------------------------------------------
(* Claims on geocode_location *)

GeocodeLocationDone == fn = "geocode_location" /\ pc = "done"

\* C27: the search fallback of geocode_location never contributes a result:
\* for every text, if geocode(text) is absent then search_stops(text) is
\* empty, so geocode_location(text) is absent exactly when geocode(text) is
\* absent.
C27_SearchNeverContributes ==
    GeocodeLocationDone =>
        /\ from_coords = None => (Len(calls) = 1 /\ calls[1][3] = {})
        /\ ret = Ok(None) <=> from_coords = None

\* geocode resolved "جابر" to nothing, the search ran and matched no stop,
\* and geocode_location returned None.
C27_Witness ==
    /\ GeocodeLocationDone
    /\ arg = <<1580, 1575, 1576, 1585>>
    /\ from_coords = None
    /\ calls = <<<<"search_stops", arg, {}>>>>
    /\ ret = Ok(None)

\* C28: starting from an empty memory store, after any sequence of
\* add_recent_location calls no two entries of recent_locations are within
\* tolerance of each other (latitude and longitude both differing by less
\* than 0.001 degree), and every entry has usage_count >= 1.
C28_RecentApart ==
    fn = "add_recent_location" =>
        LET recent == memory.recent_locations
        IN  /\ \A i, j \in DOMAIN recent : i # j => ~Near(recent[i], recent[j])
            /\ \A i \in DOMAIN recent : recent[i].usage_count >= 1

\* Three entries are kept: the first two 0.0012 degree apart on one meridian,
\* the third 0.0004 degree from the first on the other meridian; one of them
\* was visited again.
C28_Witness ==
    /\ fn = "add_recent_location"
    /\ Len(memory.recent_locations) = 3
    /\ memory.recent_locations[2].lat - memory.recent_locations[1].lat = 12000
    /\ memory.recent_locations[2].lon = memory.recent_locations[1].lon
    /\ memory.recent_locations[3].lat - memory.recent_locations[1].lat = 4000
    /\ memory.recent_locations[3].lon # memory.recent_locations[1].lon
    /\ \E i \in 1..3 : memory.recent_locations[i].usage_count = 2

-----------------------------------------------------------------------------
(* get_search_history on the stores that add_search_history builds *)

\* The searches of a run, and the limits asked for
MaxSearches == 4
MaxLimit == 6

\* MemoryManager.get_search_history: search_history[-limit:] for limit >= 0.
\* The slice from -0 is the slice from 0, the whole list.
get_search_history(m, limit) ==
    LET history == m.search_history
    IN  IF limit = 0 \/ limit >= Len(history) THEN history
        ELSE SubSeq(history, Len(history) - limit + 1, Len(history))

InitHistory ==
    /\ stops = << >>
    /\ stop_dict = << >>
    /\ fn = "add_search_history"
    /\ pc = "ready"
    /\ arg = None
    /\ ret = None
    /\ NoQuery
    /\ NewStore

\* add_search_history of one of two queries, one day after the call before
AddSearchHistoryNext ==
    /\ fn = "add_search_history"
    /\ now < MaxSearches
    /\ now' = now + 1
    /\ \E k \in {0, 1} :
          Saved(add_search_history(memory, QueryText(k), PlaceText(0), PlaceText(1), now'))
    /\ UNCHANGED <<stops, stop_dict, fn, pc, arg, ret, locals, waiting>>

\* get_search_history(limit) on the store as it is, after which the run is
\* over
GetSearchHistory ==
    /\ fn = "add_search_history"
    /\ \E limit \in 0..MaxLimit :
          /\ arg' = limit
          /\ ret' = get_search_history(memory, limit)
    /\ fn' = "get_search_history"
    /\ UNCHANGED <<waiting, store, stops, stop_dict, pc, locals>>

NextHistory == AddSearchHistoryNext \/ GetSearchHistory

SpecHistory == InitHistory /\ [][NextHistory]_vars

-----------------------------------------------------------------------------
(* Claims on the search history *)

HistoryDone == fn = "get_search_history"

\* C29: for every integer limit >= 0 and every state of the store,
\* get_search_history(limit) returns at most limit entries, namely the last
\* min(limit, length) entries of search_history in their stored order.
C29_LastEntries ==
    HistoryDone =>
        LET history == memory.search_history
            n == IF arg < Len(history) THEN arg ELSE Len(history)
        IN  /\ Len(ret) <= arg
            /\ Len(ret) = n
            /\ \A i \in 1..n : ret[i] = history[Len(history) - n + i]

-----------------------------------------------------------------------------
(* normalize_egyptian_text on queries in Egyptian Arabic *)

\* The five colloquial tokens: عايز, عاوز, إزاي, ازاي, روح
ColloquialTokens ==
    {<<1593, 1575, 1610, 1586>>, <<1593, 1575, 1608, 1586>>, <<1573, 1586, 1575, 1610>>, <<1575, 1586, 1575, 1610>>, <<1585, 1608, 1581>>}

\* The beginnings and the ends of the tokens, which are no tokens themselves
TokenPieces ==
    UNION {{SubSeq(tok, 1, n) : n \in 1..(Len(tok) - 1)}
           \cup {SubSeq(tok, n, Len(tok)) : n \in 2..Len(tok)} :
              tok \in ColloquialTokens}

\* The six Egyptian-Arabic templates of extract_locations
EgyptianTemplates ==
    {k \in DOMAIN patterns :
        \E opener \in {<<1593, 1575, 1610, 1586>>, <<1593, 1575, 1610, 1586, 1577>>, <<1593, 1575, 1608, 1586>>, <<1593, 1575, 1608, 1586, 1577>>, <<1573, 1586, 1575, 1610>>, <<1575, 1586, 1575, 1610>>} :
            StartsWith(patterns[k], opener \o <<92, 115, 43, 1571, 1585, 1608, 1581>>)}

\* Queries that open as the six templates do, from a to b: the openers, then
\* أروح من a, then إلى b or لـ b
TemplateQueries ==
    {opener \o <<32, 1571, 1585, 1608, 1581, 32, 1605, 1606, 32, 97, 32>> \o to \o <<32, 98>> :
        opener \in {<<1593, 1575, 1610, 1586>>, <<1593, 1575, 1610, 1586, 1577>>, <<1593, 1575, 1608, 1586>>, <<1593, 1575, 1608, 1586, 1577>>, <<1573, 1586, 1575, 1610>>, <<1575, 1586, 1575, 1610>>},
        to \in {<<1573, 1604, 1609>>, <<1604, 1600>>}}

\* A word of the table next to a piece of a token, without a space between
GluedTexts ==
    {w \o piece : w \in NormalizeWords, piece \in TokenPieces}
    \cup {piece \o w : w \in NormalizeWords, piece \in TokenPieces}

ColloquialTexts == TemplateQueries \cup GluedTexts \cup NormalizeWords

InitColloquial ==
    /\ stops = << >>
    /\ stop_dict = << >>
    /\ fn = "normalize_egyptian_text"
    /\ pc = "call"
    /\ arg \in ColloquialTexts
    /\ ret = None
    /\ NoQuery
    /\ NewStore

NormalizeQuery ==
    /\ fn = "normalize_egyptian_text" /\ pc = "call"
    /\ ret' = normalize_egyptian_text(arg)
    /\ pc' = "normalized"
    /\ UNCHANGED <<waiting, store, stops, stop_dict, fn, arg, locals>>

NextColloquial == NormalizeQuery

SpecColloquial == InitColloquial /\ [][NextColloquial]_vars

-----------------------------------------------------------------------------
(* Claims on the colloquial tokens *)

Normalized == fn = "normalize_egyptian_text" /\ pc = "normalized"

\* C30: for every input text, the output of normalize_egyptian_text contains
\* no occurrence of the colloquial tokens عايز, عاوز, إزاي, ازاي or روح;
\* since extract_locations matches its templates against the normalized
\* text, none of its six Egyptian-Arabic templates (those beginning with
\* عايز, عايزة, عاوز, عاوزة, إزاي or ازاي followed by أروح) can ever match.
C30_NoColloquialToken ==
    Normalized =>
        /\ \A tok \in ColloquialTokens : ~In(tok, ret)
        /\ \A k \in EgyptianTemplates :
              re_search_from(re_compile(patterns[k]), lower(ret), 1) = NoMatch

====
